---- MODULE Spec2Model ----
(***************************************************************************)
(* State-machine model of the DynRPG plugin bundle (MoVehrs/DynRPG-Plugins) *)
(*   - dynamic_quickpatch : variable-driven memory patches with shadows    *)
(*   - direct_skills      : battle command -> skill rewriting              *)
(*   - limit_break        : limit meters, ultimate meter, action rewriting *)
(* Every plugin is a set of host callbacks run on one thread; each action  *)
(* below is one whole callback.  Each plugin has its own specification;    *)
(* the variables of the other plugins stay unchanged in it.                *)
(***************************************************************************)
EXTENDS Integers, Sequences, FiniteSets, TLC

VARIABLES
    variables,              \* RPG::variables (host variable array)
    memory,                 \* host process image: address -> byte
    originalMemoryValues,   \* DynamicQuickPatch::originalMemoryValues
    gameJustLoaded,         \* DynamicQuickPatch::gameJustLoaded
    quickpatchMappings,     \* DynamicQuickPatchConfig::quickpatchMappings
    appliedLog,             \* history: the updateQuickPatch calls of the last callback
    qpLast,                 \* history: the last DynamicQuickPatch callback
    commandToSkillMap,      \* DirectSkillsConfig::commandToSkillMap
    defaultSkillMap,        \* DirectSkillsConfig::defaultSkillMap
    limitBreakCommandId,    \* DirectSkillsConfig::limitBreakCommandId
    limitBreakUltimateCommandId, \* DirectSkillsConfig::limitBreakUltimateCommandId
    actorCommandMap,        \* DirectSkills::actorCommandMap
    dsIni,                  \* the DynRPG.ini text DirectSkills was started with
    dsStarted,              \* DirectSkills::onStartup has run
    dsLast,                 \* history: the onDoBattlerAction call made on the current state
    limitBreakConfig,       \* namespace LimitBreakConfig: the loaded settings
    equipment,              \* RPG::Actor equipment slots, per actor id
    party,                  \* RPG::Actor::partyMember: the party, by battle position
    limitCommandSelected,   \* LimitBreak::limitCommandSelected
    ultimateLimitCommandSelected, \* LimitBreak::ultimateLimitCommandSelected
    preHP,                  \* LimitBreakCalculate::preHP
    nextIsActorAction,      \* LimitBreakCalculate::nextIsActorAction
    lastActionActor,        \* LimitBreakCalculate::lastActionActor (0 = nullptr)
    monitoringDamage,       \* LimitBreakCalculate::monitoringDamage
    wasInBattle,            \* LimitBreakCalculate::wasInBattle
    wasAt100Percent,        \* LimitBreakConfig::wasAt100Percent
    lbAction,               \* history: the action an observed onDoBattlerAction got and left
    overflowResult,         \* what an out-of-range float-to-int conversion yields in this build
    lbLast,                 \* history: the last LimitBreak callback and what it saw
    actorWeaponMap,         \* BareHandedConfig::actorWeaponMap
    actorVariableMap,       \* BareHandedConfig::actorVariableMap
    weaponsEquipped,        \* BareHanded::weaponsEquipped
    bhLast,                 \* history: the last BareHanded callback
    startup                 \* history: what each module's onStartup returned to the host

qpVars == <<memory, originalMemoryValues, gameJustLoaded, quickpatchMappings,
            appliedLog, qpLast>>

dsVars == <<commandToSkillMap, defaultSkillMap, limitBreakCommandId,
            limitBreakUltimateCommandId, actorCommandMap, dsIni, dsStarted, dsLast>>

lbVars == <<limitBreakConfig, equipment, party, limitCommandSelected,
            ultimateLimitCommandSelected, preHP, nextIsActorAction, lastActionActor,
            monitoringDamage, wasInBattle, wasAt100Percent, overflowResult, lbLast,
            lbAction>>

bhVars == <<actorWeaponMap, actorVariableMap, weaponsEquipped, bhLast>>

vars == <<variables, qpVars, dsVars, lbVars, bhVars, startup>>

\* What the callbacks of one plugin leave alone: the state of the other plugins.
nonQPVars == <<dsVars, lbVars, bhVars, startup>>

nonDSVars == <<qpVars, lbVars, bhVars, startup>>

nonLBVars == <<qpVars, dsVars, bhVars, startup>>

\* The four modules, and what onStartup told the host.
Modules == {"dynamic_quickpatch", "direct_skills", "limit_break", "bare_handed"}

NotStarted == [called |-> FALSE, ok |-> FALSE]

Started(ok) == [called |-> TRUE, ok |-> ok]

AllStarted == [m \in Modules |-> Started(TRUE)]

\* The startup history of a session in which every module has returned true,
\* DirectSkills only if its onStartup has run.
StartupOf(started) ==
    [AllStarted EXCEPT !["direct_skills"] = IF started THEN Started(TRUE) ELSE NotStarted]

(***************************************************************************)
(* Generic helpers                                                         *)
(***************************************************************************)
Min(a, b) == IF a < b THEN a ELSE b

Max(a, b) == IF a > b THEN a ELSE b

\* Values of a sequence as a set.
Range(s) == {s[i] : i \in DOMAIN s}

SeqsUpTo(S, n) == UNION {[1..k -> S] : k \in 0..n}

(***************************************************************************)
(* DynamicQuickPatch                                                       *)
(***************************************************************************)
\* Bounds of the model.
MaxMappings == 2

NumTargets == 2

MaxVariableId == 1

\* Program constants.
DQP_INT8_MIN == -127

DQP_INT8_MAX == 127

\* Width of an address.  The program's addresses are 32 bits wide; the model
\* keeps the comparisons against the largest address in a narrower space.
AddressBits == 16

\* 0xFFFFFFFF, the largest address, at the model's address width.
ADDRESS_LIMIT == 2^AddressBits - 1

SIZEOF_INT == 4

\* Patch target addresses and the part of the host image the patches can touch.
TargetAddrs == 1..NumTargets

MemAddrs == 1..(NumTargets + SIZEOF_INT - 1)

\* The bytes of the host image before any patch is written.
HostImage == [a \in MemAddrs |-> 144 + a]

\* Values the host assigns to monitored variables.
QPValues == {-200, 0, 5, 200}

QPVarIds == 1..MaxVariableId

HexChars == <<"0","1","2","3","4","5","6","7","8","9","A","B","C","D","E","F">>

\* strtol(byteStr, NULL, 16) of one hex digit.
HexDigit(c) == (CHOOSE i \in DOMAIN HexChars : HexChars[i] = c) - 1

\* The hex payloads the configurations use ("EB", "C3CC").
HexPayloads == {<<"E","B">>, <<"C","3","C","C">>}

\* QuickPatchMapping records accepted by the loader.
MappingRecords ==
    [variableId : QPVarIds, address : TargetAddrs, type : {"QPTYPE_8BIT", "QPTYPE_32BIT"},
     hexValue : {<< >>}, applyOnLoadGame : BOOLEAN]
    \cup
    [variableId : QPVarIds, address : TargetAddrs, type : {"QPTYPE_HEX_RAW"},
     hexValue : HexPayloads, applyOnLoadGame : BOOLEAN]

\* (char)value : the low byte of the two's complement representation.
ToByte(value) == value % 256

\* The signed value of a byte read through a char*.
SignedByte(b) == IF b >= 128 THEN b - 256 ELSE b

\* *((int*)address) = value : the four bytes, little-endian.
ToBytes32(value) ==
    <<value % 256, (value \div 256) % 256, (value \div 65536) % 256,
      (value \div 16777216) % 256>>

\* The bytes writeHexValue derives from a hex string, pair by pair.
HexBytes(hexString) ==
    [i \in 1..(Len(hexString) \div 2) |->
        HexDigit(hexString[2 * i - 1]) * 16 + HexDigit(hexString[2 * i])]

\* Copy a byte sequence into the image at address.
Poke(mem, address, bytes) ==
    [a \in DOMAIN mem |->
        IF a >= address /\ a < address + Len(bytes) THEN bytes[a - address + 1] ELSE mem[a]]

Peek(mem, address, length) == [i \in 1..length |-> mem[address + i - 1]]

\* Mutant of hasOriginalValues: the stored vector must be strictly longer.
hasOriginalValues_LongerOnly(orig, address, length) ==
    address \in DOMAIN orig /\ Len(orig[address]) > length

hasOriginalValues(orig, address, length) ==
    address \in DOMAIN orig /\ Len(orig[address]) >= length

storeOriginalValues(st, address, length) ==
    IF hasOriginalValues(st.orig, address, length) THEN st
    ELSE IF address = 0 \/ address >= ADDRESS_LIMIT - length THEN st
    ELSE [st EXCEPT !.orig =
            [a \in DOMAIN st.orig \cup {address} |->
                IF a = address THEN Peek(st.mem, address, length) ELSE st.orig[a]]]

restoreOriginalValues(st, address) ==
    IF address \notin DOMAIN st.orig THEN st
    ELSE IF address = 0 \/ address >= ADDRESS_LIMIT - Len(st.orig[address]) THEN st
    ELSE [st EXCEPT !.mem = Poke(st.mem, address, st.orig[address])]

\* Mutant of write8bitValue: the value is added to the byte in place.
write8bitValue_Accumulates(st, address, value) ==
    IF address = 0 \/ address >= ADDRESS_LIMIT THEN st
    ELSE LET s1 == IF ~hasOriginalValues(st.orig, address, 1)
                   THEN storeOriginalValues(st, address, 1) ELSE st
         IN  [s1 EXCEPT !.mem = Poke(s1.mem, address, <<ToByte(s1.mem[address] + value)>>)]

write8bitValue(st, address, value) ==
    IF address = 0 \/ address >= ADDRESS_LIMIT THEN st
    ELSE LET s1 == IF ~hasOriginalValues(st.orig, address, 1)
                   THEN storeOriginalValues(st, address, 1) ELSE st
         IN  [s1 EXCEPT !.mem = Poke(s1.mem, address, <<ToByte(value)>>)]

write32bitValue(st, address, value) ==
    IF address = 0 \/ address >= ADDRESS_LIMIT - SIZEOF_INT THEN st
    ELSE LET s1 == IF ~hasOriginalValues(st.orig, address, SIZEOF_INT)
                   THEN storeOriginalValues(st, address, SIZEOF_INT) ELSE st
         IN  [s1 EXCEPT !.mem = Poke(s1.mem, address, ToBytes32(value))]

\* Mutant of writeHexValue: the shadow is captured at every write.
writeHexValue_Recaptures(st, address, hexString) ==
    LET byteCount == Len(hexString) \div 2
        s1 == [st EXCEPT !.orig =
                 [a \in DOMAIN st.orig \cup {address} |->
                     IF a = address THEN Peek(st.mem, address, byteCount) ELSE st.orig[a]]]
    IN  IF address = 0 \/ address >= ADDRESS_LIMIT - byteCount THEN s1
        ELSE [s1 EXCEPT !.mem = Poke(s1.mem, address, HexBytes(hexString))]

writeHexValue(st, address, hexString) ==
    LET byteCount == Len(hexString) \div 2
        s1 == IF ~hasOriginalValues(st.orig, address, byteCount)
              THEN storeOriginalValues(st, address, byteCount) ELSE st
    IN  IF address = 0 \/ address >= ADDRESS_LIMIT - byteCount THEN s1
        ELSE [s1 EXCEPT !.mem = Poke(s1.mem, address, HexBytes(hexString))]

\* Mutant of ClampInt8: the value is passed through without clamping.
ClampInt8_NoClamp(value) == value

\* The range clamp updateQuickPatch applies to an 8-bit value.
ClampInt8(value) ==
    LET lo == IF value < DQP_INT8_MIN THEN DQP_INT8_MIN ELSE value
    IN  IF lo > DQP_INT8_MAX THEN DQP_INT8_MAX ELSE lo

updateQuickPatch(st, mapping, value) ==
    IF value = 0 /\ mapping.type = "QPTYPE_HEX_RAW"
    THEN IF hasOriginalValues(st.orig, mapping.address, Len(mapping.hexValue) \div 2)
         THEN restoreOriginalValues(st, mapping.address)
         ELSE st
    ELSE CASE mapping.type = "QPTYPE_8BIT" ->
                write8bitValue(st, mapping.address, ClampInt8(value))
           [] mapping.type = "QPTYPE_32BIT" ->
                write32bitValue(st, mapping.address, value)
           [] OTHER ->
                writeHexValue(st, mapping.address, mapping.hexValue)

\* One entry of the history of a callback: which mapping was applied with which
\* value, and the byte found at its address right after the call.
LogEntry(st, index, mapping, value) ==
    [index |-> index, value |-> value, type |-> mapping.type,
     byte |-> st.mem[mapping.address]]

\* The loop of onSetVariable over all mappings, from index i on.
RECURSIVE SetVariableLoop(_, _, _, _, _)
SetVariableLoop(st, mappings, i, id, value) ==
    IF i > Len(mappings) THEN st
    ELSE IF mappings[i].variableId = id
         THEN LET s1 == updateQuickPatch([mem |-> st.mem, orig |-> st.orig], mappings[i], value)
              IN  SetVariableLoop(
                      [mem |-> s1.mem, orig |-> s1.orig,
                       log |-> Append(st.log, LogEntry(s1, i, mappings[i], value))],
                      mappings, i + 1, id, value)
         ELSE SetVariableLoop(st, mappings, i + 1, id, value)

\* The loop of onFrame without the test of applyOnLoadGame.
RECURSIVE LoadGameLoop_IgnoresFlag(_, _, _, _)
LoadGameLoop_IgnoresFlag(st, mappings, i, vs) ==
    IF i > Len(mappings) THEN st
    ELSE LET value == vs[mappings[i].variableId]
             s1 == updateQuickPatch([mem |-> st.mem, orig |-> st.orig], mappings[i], value)
         IN  LoadGameLoop_IgnoresFlag(
                 [mem |-> s1.mem, orig |-> s1.orig,
                  log |-> Append(st.log, LogEntry(s1, i, mappings[i], value))],
                 mappings, i + 1, vs)

\* The loop of onFrame over all mappings after a load, from index i on.
RECURSIVE LoadGameLoop(_, _, _, _)
LoadGameLoop(st, mappings, i, vs) ==
    IF i > Len(mappings) THEN st
    ELSE IF mappings[i].applyOnLoadGame
            /\ mappings[i].variableId > 0 /\ mappings[i].variableId <= MaxVariableId
         THEN LET value == vs[mappings[i].variableId]
                  s1 == updateQuickPatch([mem |-> st.mem, orig |-> st.orig], mappings[i], value)
              IN  LoadGameLoop(
                      [mem |-> s1.mem, orig |-> s1.orig,
                       log |-> Append(st.log, LogEntry(s1, i, mappings[i], value))],
                      mappings, i + 1, vs)
         ELSE LoadGameLoop(st, mappings, i + 1, vs)

\* size of a mapping's patch as onNewGame computes it.
PatchSize(mapping) ==
    CASE mapping.type = "QPTYPE_8BIT" -> 1
      [] mapping.type = "QPTYPE_32BIT" -> SIZEOF_INT
      [] OTHER -> Len(mapping.hexValue) \div 2

\* The loop of onNewGame over all mappings, from index i on.
RECURSIVE NewGameLoop(_, _, _, _)
NewGameLoop(st, mappings, i, processedAddresses) ==
    IF i > Len(mappings) THEN st
    ELSE IF mappings[i].address \in processedAddresses
         THEN NewGameLoop(st, mappings, i + 1, processedAddresses)
         ELSE LET s1 == IF hasOriginalValues(st.orig, mappings[i].address, PatchSize(mappings[i]))
                        THEN restoreOriginalValues(st, mappings[i].address)
                        ELSE st
              IN  NewGameLoop(s1, mappings, i + 1,
                              processedAddresses \cup {mappings[i].address})

QPState == [mem |-> memory, orig |-> originalMemoryValues, log |-> << >>]

NoShadow == [a \in {} |-> << >>]

\* onSetVariable(id, value); the hook returns true and the host then assigns.
QP_onSetVariable(id, value) ==
    LET r == SetVariableLoop(QPState, quickpatchMappings, 1, id, value)
    IN  /\ memory' = r.mem
        /\ originalMemoryValues' = r.orig
        /\ appliedLog' = r.log
        /\ variables' = [variables EXCEPT ![id] = value]
        /\ qpLast' = "onSetVariable"
        /\ UNCHANGED <<gameJustLoaded, quickpatchMappings, nonQPVars>>

\* onLoadGame; the host replaces its variables by the saved ones.
QP_onLoadGame(saved) ==
    /\ gameJustLoaded' = TRUE
    /\ variables' = saved
    /\ appliedLog' = << >>
    /\ qpLast' = "onLoadGame"
    /\ UNCHANGED <<memory, originalMemoryValues, quickpatchMappings, nonQPVars>>

QP_onFrame(scene) ==
    /\ IF gameJustLoaded /\ scene = "SCENE_MAP"
       THEN LET r == LoadGameLoop(QPState, quickpatchMappings, 1, variables)
            IN  /\ memory' = r.mem
                /\ originalMemoryValues' = r.orig
                /\ appliedLog' = r.log
                /\ gameJustLoaded' = FALSE
       ELSE /\ appliedLog' = << >>
            /\ UNCHANGED <<memory, originalMemoryValues, gameJustLoaded>>
    /\ qpLast' = "onFrame"
    /\ UNCHANGED <<variables, quickpatchMappings, nonQPVars>>

QP_onNewGame ==
    LET r == NewGameLoop(QPState, quickpatchMappings, 1, {})
    IN  /\ memory' = r.mem
        /\ originalMemoryValues' = NoShadow
        /\ appliedLog' = << >>
        /\ qpLast' = "onNewGame"
        /\ UNCHANGED <<variables, gameJustLoaded, quickpatchMappings, nonQPVars>>

(***************************************************************************)
(* DynamicQuickPatch: properties                                           *)
(***************************************************************************)
\* The bytes a mapping targets: its address and the following bytes of its patch.
TargetedBytes(mapping) ==
    {mapping.address + k : k \in 0..(PatchSize(mapping) - 1)}

\* C2: after onNewGame the shadow table is empty and every byte targeted by a
\* mapping holds the value it had before the first patch write, for every set
\* of mappings and every preceding sequence of variable writes and reloads.
C2_NewGameRestoresOriginalBytes ==
    qpLast = "onNewGame" =>
        /\ DOMAIN originalMemoryValues = {}
        /\ \A i \in DOMAIN quickpatchMappings :
              \A a \in TargetedBytes(quickpatchMappings[i]) :
                  memory[a] = HostImage[a]

\* C3: while no new game intervenes, a shadow that exists keeps its bytes and
\* its length, whatever later writes are made to its address.
C3_ShadowNeverOverwritten ==
    [][qpLast' # "onNewGame" =>
          \A a \in DOMAIN originalMemoryValues :
              /\ a \in DOMAIN originalMemoryValues'
              /\ originalMemoryValues'[a] = originalMemoryValues[a]]_vars

\* What an 8-bit patch must leave at the address for a given variable value.
ExpectedInt8(value) ==
    IF value < -127 THEN -127 ELSE IF value > 127 THEN 127 ELSE value

\* C4: every application of an I8 mapping (on a variable write or on a reload)
\* leaves at the mapping's address the value clamped to [-127, 127]; a value
\* already in the range is written unchanged.
C4_Int8WriteIsClamped ==
    \A i \in DOMAIN appliedLog :
        appliedLog[i].type = "QPTYPE_8BIT" =>
            LET written == SignedByte(appliedLog[i].byte)
            IN  /\ written = ExpectedInt8(appliedLog[i].value)
                /\ written >= -127 /\ written <= 127
                /\ (appliedLog[i].value \in (-127)..127 => written = appliedLog[i].value)

\* An I8 mapping was applied with a value above the range and one inside it.
C4_Witness ==
    /\ \E i \in DOMAIN appliedLog :
          /\ appliedLog[i].type = "QPTYPE_8BIT"
          /\ appliedLog[i].value > 127
          /\ SignedByte(appliedLog[i].byte) = 127
    /\ qpLast = "onFrame"

\* The mappings bound to a variable, by index.
MappingsOf(id) == {i \in DOMAIN quickpatchMappings : quickpatchMappings[i].variableId = id}

\* The byte of mapping i lies outside the region of every RawBytes mapping.
OutsideRawRegions(i) ==
    \A j \in DOMAIN quickpatchMappings :
        quickpatchMappings[j].type = "QPTYPE_HEX_RAW" =>
            quickpatchMappings[i].address \notin TargetedBytes(quickpatchMappings[j])

\* C11: onSetVariable(id, 0), made right after a write of a non-zero value to
\* id, leaves the region of every RawBytes mapping of id at its original bytes
\* and a literal 0 at every I8 mapping of id (the I8 bytes lying outside the
\* RawBytes regions).
C11_ZeroRestoresRawAndZeroesInt8 ==
    [][(/\ qpLast = "onSetVariable"
        /\ variables[1] # 0
        /\ qpLast' = "onSetVariable"
        /\ variables'[1] = 0
        /\ \A i \in MappingsOf(1) :
               quickpatchMappings[i].type = "QPTYPE_8BIT" => OutsideRawRegions(i))
       => \A i \in MappingsOf(1) :
              /\ quickpatchMappings[i].type = "QPTYPE_HEX_RAW" =>
                     \A a \in TargetedBytes(quickpatchMappings[i]) : memory'[a] = HostImage[a]
              /\ quickpatchMappings[i].type = "QPTYPE_8BIT" =>
                     memory'[quickpatchMappings[i].address] = 0]_vars

\* The mappings flagged OnLoadGame=true, by index.
FlaggedMappings == {i \in DOMAIN quickpatchMappings : quickpatchMappings[i].applyOnLoadGame}

\* C12: onLoadGame writes nothing and only it arms the reapplication; the
\* frame that disarms it (the first Map frame after the load) applies every
\* flagged mapping exactly once with the current value of its variable and no
\* unflagged mapping; every other frame, Map frames after it included, applies
\* nothing and leaves the host bytes and the shadow table alone.
C12_ReapplyOnFirstMapFrame ==
    [][/\ (qpLast' = "onLoadGame" =>
              memory' = memory /\ originalMemoryValues' = originalMemoryValues)
       /\ (gameJustLoaded' /\ ~gameJustLoaded => qpLast' = "onLoadGame")
       /\ (qpLast' = "onFrame" /\ gameJustLoaded /\ ~gameJustLoaded' =>
              /\ Len(appliedLog') = Cardinality(FlaggedMappings)
              /\ {appliedLog'[k].index : k \in DOMAIN appliedLog'} = FlaggedMappings
              /\ \A k \in DOMAIN appliedLog' :
                     appliedLog'[k].value
                         = variables[quickpatchMappings[appliedLog'[k].index].variableId])
       /\ (qpLast' = "onFrame" /\ ~(gameJustLoaded /\ ~gameJustLoaded') =>
              /\ appliedLog' = << >>
              /\ memory' = memory
              /\ originalMemoryValues' = originalMemoryValues)]_vars

\* A Map frame after a load has just applied the flagged one of two mappings,
\* with a non-zero value.
C12_Witness ==
    /\ qpLast = "onFrame"
    /\ ~gameJustLoaded
    /\ Len(quickpatchMappings) = 2
    /\ Cardinality(FlaggedMappings) = 1
    /\ Len(appliedLog) = 1
    /\ appliedLog[1].value # 0
    /\ memory # HostImage

\* C13: right after the Map frame that reapplied the flagged mappings, a
\* second onLoadGame with the same variable values followed by a Map frame
\* leaves the host bytes as they are.
C13_ReapplicationIdempotent ==
    (qpLast = "onFrame" /\ appliedLog # << >>) =>
        LoadGameLoop(QPState, quickpatchMappings, 1, variables).mem = memory

\* A reapplication of two flagged mappings has just patched the host with a
\* non-zero variable value, a shadow being in place.
C13_Witness ==
    /\ qpLast = "onFrame"
    /\ Len(appliedLog) = 2
    /\ variables[1] # 0
    /\ memory # HostImage
    /\ originalMemoryValues # NoShadow

\* C14: when the last two updateQuickPatch calls of a callback were a write
\* of some value through an I8 or I32 mapping at an address and then a 0
\* through a RawBytes mapping at the same address, the bytes the I8 or I32
\* write covered hold their original values again, whatever the payload length.
C14_ZeroThroughRawUndoesIntWrite ==
    (Len(appliedLog) = 2 /\ appliedLog[2].value = 0) =>
        LET m1 == quickpatchMappings[appliedLog[1].index]
            m2 == quickpatchMappings[appliedLog[2].index]
        IN  (/\ m1.type \in {"QPTYPE_8BIT", "QPTYPE_32BIT"}
             /\ m2.type = "QPTYPE_HEX_RAW"
             /\ m2.address = m1.address)
            => \A a \in TargetedBytes(m1) : memory[a] = HostImage[a]

\* Mapping i is the only mapping that targets the byte at its address.
SoleTarget(i) ==
    \A j \in DOMAIN quickpatchMappings :
        j # i => quickpatchMappings[i].address \notin TargetedBytes(quickpatchMappings[j])

\* C15: for an I8 mapping that alone targets its address A, with original
\* byte X: while A has no shadow the byte is X; a shadow of A is always <<X>>,
\* from the first write on and through every further write; after an
\* onSetVariable of its variable the shadow exists and a value of 200 has left
\* 127 at A; after onNewGame the byte is X again and the shadow table is empty.
C15_Int8RoundTrip ==
    \A i \in DOMAIN quickpatchMappings :
        (quickpatchMappings[i].type = "QPTYPE_8BIT" /\ SoleTarget(i)) =>
            LET A == quickpatchMappings[i].address
            IN  /\ A \in DOMAIN originalMemoryValues =>
                       originalMemoryValues[A] = <<HostImage[A]>>
                /\ A \notin DOMAIN originalMemoryValues => memory[A] = HostImage[A]
                /\ qpLast = "onSetVariable" =>
                       \A k \in DOMAIN appliedLog :
                           appliedLog[k].index = i =>
                               /\ A \in DOMAIN originalMemoryValues
                               /\ SignedByte(memory[A]) = ExpectedInt8(appliedLog[k].value)
                               /\ appliedLog[k].value = 200 => SignedByte(memory[A]) = 127
                /\ qpLast = "onNewGame" =>
                       memory[A] = HostImage[A] /\ originalMemoryValues = NoShadow

\* set(1, 200) has just written 127 through an I8 mapping that alone targets
\* its address, next to a second mapping, the shadow holding the original byte.
C15_Witness ==
    /\ qpLast = "onSetVariable"
    /\ Len(quickpatchMappings) = 2
    /\ \E i \in DOMAIN quickpatchMappings :
          /\ \E k \in DOMAIN appliedLog : appliedLog[k].index = i /\ appliedLog[k].value = 200
          /\ quickpatchMappings[i].type = "QPTYPE_8BIT"
          /\ SoleTarget(i)
          /\ SignedByte(memory[quickpatchMappings[i].address]) = 127
          /\ originalMemoryValues[quickpatchMappings[i].address]
                 = <<HostImage[quickpatchMappings[i].address]>>

\* The region of mapping i overlaps the region of no other mapping.
SoleRegion(i) ==
    \A j \in DOMAIN quickpatchMappings :
        j # i => TargetedBytes(quickpatchMappings[i])
                     \cap TargetedBytes(quickpatchMappings[j]) = {}

\* C16: for a RawBytes mapping whose region no other mapping touches, after
\* every step: the region holds the payload or the original bytes; a shadow of
\* its address holds the original bytes (captured once, never re-captured);
\* after onSetVariable of its variable with a value > 0 the region holds the
\* payload and the shadow exists; after onSetVariable of its variable with 0
\* the region holds the original bytes and a shadow that existed is kept;
\* after onNewGame the region holds the original bytes and the shadow is gone.
C16_RawBytesStateMachine ==
    [][\A i \in DOMAIN quickpatchMappings :
          (quickpatchMappings[i].type = "QPTYPE_HEX_RAW" /\ SoleRegion(i)) =>
              LET A == quickpatchMappings[i].address
                  n == PatchSize(quickpatchMappings[i])
                  payload == HexBytes(quickpatchMappings[i].hexValue)
                  original == Peek(HostImage, A, n)
                  region == Peek(memory', A, n)
                  set == {appliedLog'[k].value :
                              k \in {l \in DOMAIN appliedLog' : appliedLog'[l].index = i}}
              IN  /\ region \in {payload, original}
                  /\ A \in DOMAIN originalMemoryValues' =>
                         originalMemoryValues'[A] = original
                  /\ (qpLast' = "onSetVariable" /\ \E value \in set : value > 0) =>
                         region = payload /\ A \in DOMAIN originalMemoryValues'
                  /\ (qpLast' = "onSetVariable" /\ 0 \in set) =>
                         /\ region = original
                         /\ A \in DOMAIN originalMemoryValues =>
                                A \in DOMAIN originalMemoryValues'
                  /\ qpLast' = "onNewGame" =>
                         region = original /\ A \notin DOMAIN originalMemoryValues']_vars

\* onSetVariable(1, 0) has just restored the region of a 2-byte RawBytes
\* mapping that shares no byte with the second mapping; its shadow is kept.
C16_Witness ==
    /\ qpLast = "onSetVariable"
    /\ Len(quickpatchMappings) = 2
    /\ \E i \in DOMAIN quickpatchMappings :
          /\ \E k \in DOMAIN appliedLog : appliedLog[k].index = i /\ appliedLog[k].value = 0
          /\ quickpatchMappings[i].type = "QPTYPE_HEX_RAW"
          /\ SoleRegion(i)
          /\ PatchSize(quickpatchMappings[i]) = 2
          /\ quickpatchMappings[i].address \in DOMAIN originalMemoryValues
          /\ Peek(memory, quickpatchMappings[i].address, 2)
                 = Peek(HostImage, quickpatchMappings[i].address, 2)

(***************************************************************************)
(* DirectSkills                                                            *)
(***************************************************************************)
\* Bounds of the model.
MaxCommandId == 2

\* The loader's loop limit (for cmdId = 1 .. 100).
COMMAND_SLOTS == 100

\* Command ids that can carry a rule in the configurations of the model.
DSCommandIds == 1..MaxCommandId

\* The variable the indirect rules of the model name ("v3").
DSVarIds == {3}

\* Contents the host gives to that variable.
DSVarValues == {-1, 0, 15}

Digits == <<"0","1","2","3","4","5","6","7","8","9">>

IsDigit(c) == \E i \in DOMAIN Digits : Digits[i] = c

DigitVal(c) == (CHOOSE i \in DOMAIN Digits : Digits[i] = c) - 1

RECURSIVE SkipSpaces(_)
SkipSpaces(s) ==
    IF s # << >> /\ Head(s) = " " THEN SkipSpaces(Tail(s)) ELSE s

RECURSIVE ParseDigits(_, _, _)
ParseDigits(s, acc, n) ==
    IF s # << >> /\ IsDigit(Head(s))
    THEN ParseDigits(Tail(s), acc * 10 + DigitVal(Head(s)), n + 1)
    ELSE [val |-> acc, count |-> n]

\* std::stoi: leading blanks, an optional sign, then digits; what follows the
\* digits is ignored; no digit at all throws (ok = FALSE).
Stoi(str) ==
    LET s0 == SkipSpaces(str)
        neg == s0 # << >> /\ Head(s0) = "-"
        s1 == IF s0 # << >> /\ Head(s0) \in {"-", "+"} THEN Tail(s0) ELSE s0
        p == ParseDigits(s1, 0, 0)
    IN  IF p.count = 0 THEN [ok |-> FALSE, val |-> 0]
        ELSE [ok |-> TRUE, val |-> IF neg THEN 0 - p.val ELSE p.val]

\* std::map assignment m[k] = v.
MapPut(m, k, v) == [x \in DOMAIN m \cup {k} |-> IF x = k THEN v ELSE m[x]]

EmptyMap == [x \in {} |-> 0]

\* config[key] when the key is present, "" otherwise.
ConfigValue(section, key) == IF key \in DOMAIN section THEN section[key] ELSE << >>

\* The parse of LimitCommandId / UltimateLimitCommandId: 0 unless std::stoi succeeds.
ParseLimitId(str) == IF Stoi(str).ok THEN Stoi(str).val ELSE 0

\* Mutant of LoadCommand: the collision with the Limit-Break command ids is not checked.
LoadCommand_NoConflictCheck(acc, cmdId, value, defaultValue) ==
    LET d == Stoi(defaultValue)
        def1 == IF defaultValue # << >> /\ d.ok /\ d.val > 0
                THEN MapPut(acc.def, cmdId, d.val) ELSE acc.def
        isVariable == value # << >> /\ Head(value) \in {"v", "V"}
        p == Stoi(IF isVariable THEN Tail(value) ELSE value)
    IN  IF value = << >> \/ ~p.ok \/ p.val <= 0 THEN [acc EXCEPT !.def = def1]
        ELSE IF isVariable /\ cmdId \notin DOMAIN def1 THEN [acc EXCEPT !.def = def1]
        ELSE [acc EXCEPT !.def = def1,
                         !.cmd = MapPut(acc.cmd, cmdId, IF isVariable THEN 0 - p.val ELSE p.val)]

\* Mutant of LoadCommand: an indirect rule is stored without asking for its default.
LoadCommand_NoDefaultCheck(acc, cmdId, value, defaultValue) ==
    LET d == Stoi(defaultValue)
        def1 == IF defaultValue # << >> /\ d.ok /\ d.val > 0
                THEN MapPut(acc.def, cmdId, d.val) ELSE acc.def
        isVariable == value # << >> /\ Head(value) \in {"v", "V"}
        p == Stoi(IF isVariable THEN Tail(value) ELSE value)
    IN  IF value = << >> \/ ~p.ok \/ p.val <= 0 THEN [acc EXCEPT !.def = def1]
        ELSE IF (cmdId = acc.limit /\ acc.limit > 0) \/ (cmdId = acc.ult /\ acc.ult > 0)
             THEN [acc EXCEPT !.def = def1]
        ELSE [acc EXCEPT !.def = def1,
                         !.cmd = MapPut(acc.cmd, cmdId, IF isVariable THEN 0 - p.val ELSE p.val)]

\* One iteration of the loader's loop: the default id, then the rule of cmdId.
LoadCommand(acc, cmdId, value, defaultValue) ==
    LET d == Stoi(defaultValue)
        def1 == IF defaultValue # << >> /\ d.ok /\ d.val > 0
                THEN MapPut(acc.def, cmdId, d.val) ELSE acc.def
        isVariable == value # << >> /\ Head(value) \in {"v", "V"}
        p == Stoi(IF isVariable THEN Tail(value) ELSE value)
    IN  IF value = << >> \/ ~p.ok \/ p.val <= 0 THEN [acc EXCEPT !.def = def1]
        ELSE IF (cmdId = acc.limit /\ acc.limit > 0) \/ (cmdId = acc.ult /\ acc.ult > 0)
             THEN [acc EXCEPT !.def = def1]
        ELSE IF isVariable /\ cmdId \notin DOMAIN def1 THEN [acc EXCEPT !.def = def1]
        ELSE [acc EXCEPT !.def = def1,
                         !.cmd = MapPut(acc.cmd, cmdId, IF isVariable THEN 0 - p.val ELSE p.val)]

\* The loader's loop for cmdId = first .. last, in ascending order.  The range is
\* halved and the lower half is computed first (the test on its limit id, which
\* no iteration changes, only fixes that order), so that the evaluation does not
\* nest once per command id.
RECURSIVE LoadCommands(_, _, _, _)
LoadCommands(acc, ini, first, last) ==
    IF first > last THEN acc
    ELSE IF first = last
         THEN LoadCommand(acc, first, ConfigValue(ini.value, first),
                          ConfigValue(ini.default, first))
         ELSE LET mid == (first + last) \div 2
                  lower == LoadCommands(acc, ini, first, mid)
              IN  IF lower.limit = acc.limit
                  THEN LoadCommands(lower, ini, mid + 1, last)
                  ELSE lower

\* DirectSkillsConfig::LoadConfig on the text of DynRPG.ini.
LoadConfig(ini) ==
    LoadCommands([cmd |-> EmptyMap, def |-> EmptyMap,
                  limit |-> ParseLimitId(ini.limit), ult |-> ParseLimitId(ini.ult)],
                 ini, 1, COMMAND_SLOTS)

\* Mutant of getSkillIdForCommand: the variable's content is used whatever it is.
getSkillIdForCommand_NoFallback(cmdMap, defMap, vs, commandId) ==
    IF commandId \notin DOMAIN cmdMap THEN 0
    ELSE IF cmdMap[commandId] > 0 THEN cmdMap[commandId]
    ELSE IF cmdMap[commandId] < 0 THEN vs[0 - cmdMap[commandId]]
    ELSE 0

\* DirectSkills::getSkillIdForCommand.
getSkillIdForCommand(cmdMap, defMap, vs, commandId) ==
    IF commandId \notin DOMAIN cmdMap THEN 0
    ELSE LET value == cmdMap[commandId]
         IN  IF value > 0 THEN value
             ELSE IF value < 0
                  THEN IF vs[0 - value] > 0 THEN vs[0 - value]
                       ELSE IF commandId \in DOMAIN defMap THEN defMap[commandId] ELSE 0
                  ELSE 0

\* Strings the configurations give to BattleCommandId<N>.
DSValueStrings ==
    {<< >>, <<"5">>, <<"v","3">>, <<"V","3">>, <<"v","x">>, <<"-","4">>}

\* Strings the configurations give to BattleCommandId<N>_DefaultId.
DSDefaultStrings == {<< >>, <<"9">>, <<"0">>, <<"x">>, <<"-","2">>}

\* Strings of LimitCommandId and UltimateLimitCommandId in the limit_break section.
DSLimitStrings == {<< >>, <<"1">>, <<"x">>}

DSUltimateStrings == {<< >>, <<"2">>}

\* The configurations onStartup is given.
DSInis ==
    [value : [DSCommandIds -> DSValueStrings], default : [DSCommandIds -> DSDefaultStrings],
     limit : DSLimitStrings, ult : DSUltimateStrings]

\* The configurations the battles of the model run under.
DSBattleInis ==
    [value : [DSCommandIds -> {<< >>, <<"5">>, <<"v","3">>}],
     default : [DSCommandIds -> {<< >>, <<"9">>}],
     limit : {<< >>, <<"1">>}, ult : {<< >>}]

NoIni == [value |-> EmptyMap, default |-> EmptyMap, limit |-> << >>, ult |-> << >>]

\* The party's actors and the command ids in the slots of their command window.
DSActors == {1}

BattleCommands == <<1, 2, 3, 0>>

\* The actions the engine hands to onDoBattlerAction.
EngineAction(kind, basicActionId, skillId) ==
    [kind |-> kind, basicActionId |-> basicActionId, skillId |-> skillId,
     target |-> "TARGET_MONSTER", targetId |-> 0]

DSEngineActions ==
    {EngineAction("AK_BASIC", "BA_ATTACK", 0), EngineAction("AK_BASIC", "BA_DOUBLE_ATTACK", 0),
     EngineAction("AK_BASIC", "BA_DEFEND", 0), EngineAction("AK_SKILL", "BA_ATTACK", 7),
     [EngineAction("AK_BASIC", "BA_ATTACK", 0) EXCEPT !.target = "TARGET_ACTOR", !.targetId = 3]}

SkillTargets ==
    {"SKILL_TARGET_ENEMY", "SKILL_TARGET_ALL_ENEMIES", "SKILL_TARGET_SELF",
     "SKILL_TARGET_ALLY", "SKILL_TARGET_ALL_ALLIES", "SKILL_TARGET_NONE"}

\* A target switch in which an ally skill also aims at the acting actor.
TranslateTarget_AllyIsSelf(action, skillTarget, actorId) ==
    CASE skillTarget = "SKILL_TARGET_ENEMY" -> [action EXCEPT !.target = "TARGET_MONSTER"]
      [] skillTarget = "SKILL_TARGET_ALL_ENEMIES" -> [action EXCEPT !.target = "TARGET_ALL_MONSTERS"]
      [] skillTarget \in {"SKILL_TARGET_SELF", "SKILL_TARGET_ALLY"} ->
            [action EXCEPT !.target = "TARGET_ACTOR", !.targetId = actorId]
      [] skillTarget = "SKILL_TARGET_ALL_ALLIES" -> [action EXCEPT !.target = "TARGET_ALL_ACTORS"]
      [] OTHER -> [action EXCEPT !.target = "TARGET_MONSTER"]

\* The switch of onDoBattlerAction on skill->target.
TranslateTarget(action, skillTarget, actorId) ==
    CASE skillTarget = "SKILL_TARGET_ENEMY" -> [action EXCEPT !.target = "TARGET_MONSTER"]
      [] skillTarget = "SKILL_TARGET_ALL_ENEMIES" -> [action EXCEPT !.target = "TARGET_ALL_MONSTERS"]
      [] skillTarget = "SKILL_TARGET_SELF" ->
            [action EXCEPT !.target = "TARGET_ACTOR", !.targetId = actorId]
      [] skillTarget = "SKILL_TARGET_ALLY" -> [action EXCEPT !.target = "TARGET_ACTOR"]
      [] skillTarget = "SKILL_TARGET_ALL_ALLIES" -> [action EXCEPT !.target = "TARGET_ALL_ACTORS"]
      [] OTHER -> [action EXCEPT !.target = "TARGET_MONSTER"]

\* The action onDoBattlerAction leaves for an actor's first try.
RewriteAction(cmdMap, defMap, stored, vs, actorId, action, skillTarget) ==
    IF action.kind # "AK_BASIC" \/ action.basicActionId \notin {"BA_ATTACK", "BA_DOUBLE_ATTACK"}
    THEN action
    ELSE IF actorId \notin DOMAIN stored THEN action
    ELSE IF stored[actorId] \notin DOMAIN cmdMap THEN action
    ELSE LET skillId == getSkillIdForCommand(cmdMap, defMap, vs, stored[actorId])
         IN  IF skillId > 0
             THEN TranslateTarget([action EXCEPT !.kind = "AK_SKILL", !.skillId = skillId],
                                  skillTarget, actorId)
             ELSE action

\* dsLast before any call of onDoBattlerAction.
NoCall == [called |-> FALSE, isMonster |-> FALSE, actorId |-> 0, firstTry |-> FALSE,
           skillTarget |-> "SKILL_TARGET_NONE",
           frame |-> [scene |-> "none", heroKind |-> "none", actorId |-> 0, selection |-> -1],
           before |-> EngineAction("AK_NONE", "BA_NONE", 0),
           after |-> EngineAction("AK_NONE", "BA_NONE", 0)]

\* The state the plugin is constructed in, before onStartup.
DSConstructed ==
    /\ commandToSkillMap = EmptyMap
    /\ defaultSkillMap = EmptyMap
    /\ limitBreakCommandId = 0
    /\ limitBreakUltimateCommandId = 0
    /\ actorCommandMap = EmptyMap
    /\ dsIni = NoIni
    /\ dsStarted = FALSE
    /\ dsLast = NoCall

\* onStartup: LoadConfig on the configuration.
DS_onStartup(ini) ==
    /\ ~dsStarted
    /\ \E r \in {LoadConfig(ini)} :
           /\ commandToSkillMap' = r.cmd
           /\ defaultSkillMap' = r.def
           /\ limitBreakCommandId' = r.limit
           /\ limitBreakUltimateCommandId' = r.ult
    /\ dsIni' = ini
    /\ dsStarted' = TRUE
    /\ startup' = [startup EXCEPT !["direct_skills"] = Started(TRUE)]
    /\ UNCHANGED <<actorCommandMap, dsLast, variables, qpVars, lbVars, bhVars>>

\* A selection tracker that does not test the command id it reads.
DS_onFrame_StoresAnyCommand(scene, heroKind, actorId, selection) ==
    /\ dsStarted
    /\ IF /\ scene = "SCENE_BATTLE"
          /\ heroKind = "actor"
          /\ selection >= 0 /\ selection < 4
       THEN actorCommandMap' = MapPut(actorCommandMap, actorId, BattleCommands[selection + 1])
       ELSE UNCHANGED actorCommandMap
    /\ UNCHANGED <<commandToSkillMap, defaultSkillMap, limitBreakCommandId,
                   limitBreakUltimateCommandId, dsIni, dsStarted, variables, nonDSVars>>

\* onFrame: the selection tracker.  The history variable dsLast is set by the
\* specification: to NoCall, or to NoCall with the frame's inputs where the
\* frames are observed.
DS_onFrame(scene, heroKind, actorId, selection) ==
    /\ dsStarted
    /\ IF /\ scene = "SCENE_BATTLE"
          /\ heroKind = "actor"
          /\ selection >= 0 /\ selection < 4
          /\ BattleCommands[selection + 1] > 0
       THEN actorCommandMap' = MapPut(actorCommandMap, actorId, BattleCommands[selection + 1])
       ELSE UNCHANGED actorCommandMap
    /\ UNCHANGED <<commandToSkillMap, defaultSkillMap, limitBreakCommandId,
                   limitBreakUltimateCommandId, dsIni, dsStarted, variables, nonDSVars>>

\* onDoBattlerAction: the action rewriter.
DS_onDoBattlerAction(isMonster, actorId, firstTry, action, skillTarget) ==
    /\ dsStarted
    /\ \E after \in {IF ~firstTry \/ isMonster THEN action
                      ELSE RewriteAction(commandToSkillMap, defaultSkillMap, actorCommandMap,
                                         variables, actorId, action, skillTarget)} :
           dsLast' =
              [called |-> TRUE, isMonster |-> isMonster, actorId |-> actorId,
               firstTry |-> firstTry, before |-> action, after |-> after,
               frame |-> NoCall.frame,
               skillTarget |-> IF after.kind # action.kind THEN skillTarget
                               ELSE "SKILL_TARGET_NONE"]
    /\ UNCHANGED <<commandToSkillMap, defaultSkillMap, limitBreakCommandId,
                   limitBreakUltimateCommandId, actorCommandMap, dsIni, dsStarted,
                   variables, nonDSVars>>

\* onBattlerActionDone: the stored selection is kept.
DS_onBattlerActionDone(isMonster, actorId, success) ==
    /\ dsStarted
    /\ UNCHANGED vars

\* The game's events give the variable of the indirect rules a new content.
DS_HostSetsVariable(id, value) ==
    /\ dsStarted
    /\ variables' = [variables EXCEPT ![id] = value]
    /\ dsLast' = NoCall
    /\ UNCHANGED <<commandToSkillMap, defaultSkillMap, limitBreakCommandId,
                   limitBreakUltimateCommandId, actorCommandMap, dsIni, dsStarted, nonDSVars>>

\* The player starts a new game.  The plugin exports no onNewGame callback, so
\* none of its state is touched; the host resets its variables.
DS_HostStartsNewGame ==
    /\ dsStarted
    /\ variables' = [v \in DOMAIN variables |-> 0]
    /\ dsLast' = [NoCall EXCEPT !.frame.scene = "NEW_GAME"]
    /\ UNCHANGED <<commandToSkillMap, defaultSkillMap, limitBreakCommandId,
                   limitBreakUltimateCommandId, actorCommandMap, dsIni, dsStarted, nonDSVars>>


(***************************************************************************)
(* DirectSkills: properties                                                *)
(***************************************************************************)
\* The call recorded in dsLast is an actor's first try of a basic attack whose
\* stored command has an indirect rule in the table.
IndirectRuleCall ==
    /\ dsLast.called /\ ~dsLast.isMonster /\ dsLast.firstTry
    /\ dsLast.before.kind = "AK_BASIC"
    /\ dsLast.before.basicActionId \in {"BA_ATTACK", "BA_DOUBLE_ATTACK"}
    /\ dsLast.actorId \in DOMAIN actorCommandMap
    /\ actorCommandMap[dsLast.actorId] \in DOMAIN commandToSkillMap
    /\ commandToSkillMap[actorCommandMap[dsLast.actorId]] < 0

\* C8: for an indirect rule the rewritten action is a skill whose id is the
\* content of the rule's variable when that content is > 0 and the rule's
\* fallback skill id when the content is <= 0.
C8_IndirectRuleResolution ==
    IndirectRuleCall =>
        LET c == actorCommandMap[dsLast.actorId]
            content == variables[0 - commandToSkillMap[c]]
        IN  /\ dsLast.after.kind = "AK_SKILL"
            /\ content > 0 => dsLast.after.skillId = content
            /\ content <= 0 =>
                  /\ c \in DOMAIN defaultSkillMap
                  /\ dsLast.after.skillId = defaultSkillMap[c]

\* An indirect rule was resolved through its fallback (rule v3, default 9,
\* content <= 0 gives skill 9).
C8_Witness ==
    /\ IndirectRuleCall
    /\ variables[3] <= 0
    /\ dsLast.after.kind = "AK_SKILL"
    /\ dsLast.after.skillId = 9

IsIndirectRule(str) == str # << >> /\ Head(str) \in {"v", "V"}

HasValidDefault(str) == Stoi(str).ok /\ Stoi(str).val > 0

\* C9: after loading, every indirect rule of the table has a fallback skill id
\* > 0, an indirect rule whose _DefaultId is missing, unparsable or <= 0 is not
\* in the table, and every command of the table resolves to a skill id > 0
\* whatever the variable holds.
C9_IndirectRulesHaveFallback ==
    dsStarted =>
        /\ \A c \in DOMAIN commandToSkillMap :
              commandToSkillMap[c] < 0 =>
                  c \in DOMAIN defaultSkillMap /\ defaultSkillMap[c] > 0
        /\ \A c \in DSCommandIds :
              (IsIndirectRule(dsIni.value[c]) /\ ~HasValidDefault(dsIni.default[c]))
                  => c \notin DOMAIN commandToSkillMap
        /\ \A c \in DOMAIN commandToSkillMap : \A content \in DSVarValues :
              getSkillIdForCommand(commandToSkillMap, defaultSkillMap,
                                   [v \in DSVarIds |-> content], c) > 0

\* A configuration with an indirect rule that lacks a valid default (refused)
\* next to an indirect rule that has one (loaded).
C9_Witness ==
    /\ dsStarted
    /\ \E c \in DSCommandIds :
          /\ dsIni.value[c] = <<"v", "3">>
          /\ ~HasValidDefault(dsIni.default[c])
          /\ c \notin DOMAIN commandToSkillMap
    /\ \E c \in DOMAIN commandToSkillMap :
          commandToSkillMap[c] < 0 /\ defaultSkillMap[c] = 9

\* The command id the Limit-Break section gives under a key, 0 when there is none.
ConfiguredLimitId(str) == IF Stoi(str).ok /\ Stoi(str).val > 0 THEN Stoi(str).val ELSE 0

\* C10: after loading, no command id of the table is the LimitCommandId or the
\* UltimateLimitCommandId of the Limit-Break section (when > 0), and the direct
\* rules of the other command ids are loaded.
C10_LimitCommandsRefused ==
    dsStarted =>
        /\ \A c \in DOMAIN commandToSkillMap :
              /\ c # ConfiguredLimitId(dsIni.limit)
              /\ c # ConfiguredLimitId(dsIni.ult)
        /\ \A c \in DSCommandIds :
              (/\ Stoi(dsIni.value[c]).ok /\ Stoi(dsIni.value[c]).val > 0
               /\ c # ConfiguredLimitId(dsIni.limit)
               /\ c # ConfiguredLimitId(dsIni.ult))
                  => /\ c \in DOMAIN commandToSkillMap
                     /\ commandToSkillMap[c] = Stoi(dsIni.value[c]).val

\* Command 1 is the Limit command and has a rule (refused); command 2 has a rule
\* and is loaded.
C10_Witness ==
    /\ dsStarted
    /\ limitBreakCommandId = 1
    /\ dsIni.value[1] = <<"5">>
    /\ 1 \notin DOMAIN commandToSkillMap
    /\ 2 \in DOMAIN commandToSkillMap

\* The command id in the first slot of the acting actor's command window is
\* the Limit command id or the Ultimate command id of the Limit-Break section.
FirstSlotIsLimitCommand ==
    \/ limitBreakCommandId > 0 /\ BattleCommands[1] = limitBreakCommandId
    \/ limitBreakUltimateCommandId > 0 /\ BattleCommands[1] = limitBreakUltimateCommandId

\* C22: Direct-Skills rewrites an actor's basic attack only when the actor's
\* first command slot holds neither the Limit command id nor the (enabled)
\* Ultimate command id.
C22_DirectSkillsYieldsToLimit ==
    (/\ dsLast.called /\ ~dsLast.isMonster /\ dsLast.firstTry
     /\ dsLast.before.kind = "AK_BASIC"
     /\ dsLast.before.basicActionId \in {"BA_ATTACK", "BA_DOUBLE_ATTACK"}
     /\ dsLast.after # dsLast.before) => ~FirstSlotIsLimitCommand

\* The call recorded in dsLast rewrote an actor's basic attack into a skill.
DirectSkillsRewrote ==
    /\ dsLast.called /\ ~dsLast.isMonster /\ dsLast.firstTry
    /\ dsLast.before.kind = "AK_BASIC"
    /\ dsLast.after.kind = "AK_SKILL"

\* C23: a Direct-Skills rewrite sets action.target from skill.target: enemy ->
\* single monster, all enemies -> all monsters, self -> single actor, ally ->
\* single actor, all allies -> all actors, any other value -> single monster;
\* action.targetId becomes the acting actor's id for self targeting and keeps
\* its value for every other target kind.
C23_TargetTranslation ==
    DirectSkillsRewrote =>
        LET t == dsLast.skillTarget
        IN  /\ dsLast.after.target =
                   (IF t = "SKILL_TARGET_ENEMY" THEN "TARGET_MONSTER"
                    ELSE IF t = "SKILL_TARGET_ALL_ENEMIES" THEN "TARGET_ALL_MONSTERS"
                    ELSE IF t = "SKILL_TARGET_SELF" THEN "TARGET_ACTOR"
                    ELSE IF t = "SKILL_TARGET_ALLY" THEN "TARGET_ACTOR"
                    ELSE IF t = "SKILL_TARGET_ALL_ALLIES" THEN "TARGET_ALL_ACTORS"
                    ELSE "TARGET_MONSTER")
            /\ dsLast.after.targetId =
                   (IF t = "SKILL_TARGET_SELF" THEN dsLast.actorId
                    ELSE dsLast.before.targetId)

\* An attack aimed at actor 3 was rewritten into an ally skill: the target is a
\* single actor and the target id is still 3, not the acting actor's.
C23_Witness ==
    /\ DirectSkillsRewrote
    /\ dsLast.skillTarget = "SKILL_TARGET_ALLY"
    /\ dsLast.before.targetId = 3
    /\ dsLast.after.target = "TARGET_ACTOR"
    /\ dsLast.after.targetId = 3
    /\ dsLast.actorId # 3

\* The command stored for an actor, 0 when there is none.
StoredCommand(map, a) == IF a \in DOMAIN map THEN map[a] ELSE 0

C25_NewGameClearsSelection ==
    [][/\ dsLast'.frame.scene = "NEW_GAME" => actorCommandMap' = EmptyMap
       /\ (dsLast.frame.scene = "NEW_GAME" /\ dsLast'.called) =>
              dsLast'.after = dsLast'.before]_vars

(***************************************************************************)
(* LimitBreak                                                              *)
(***************************************************************************)
\* Bounds of the model.
NumActors == 4

ActorMaxHp == 10

MonsterMaxHp == 1

\* Width of the C++ int that holds gains and meters.
INT_MAX == 2147483647

INT_MIN == (-INT_MAX) - 1

\* RPG::actors[1..count], RPG::monsters, and the two scenes onFrame tells apart.
LBActorIds == 1..NumActors

LBMonsters == {1}

LBScenes == {"SCENE_MAP", "SCENE_BATTLE"}

\* Layout of the host variables the settings point at: one meter and one mode
\* variable per actor, and the ultimate meter.
LimitVarOf(a) == a

ModeVarOf(a) == NumActors + a

UltimateVar == 2 * NumActors + 1

\* The variable that holds actor 1's limit skill id where one is configured.
SkillVar == UltimateVar + 1

LBVarIds == 1..SkillVar

\* Equipment multipliers are kept in halves (2 = 1.0); the configured items add
\* +1.0, -2.0 and +16383.0 to the base.
EquipmentHalves == (1 :> 2) @@ (2 :> -4) @@ (3 :> 32766)

NoEquipment == <<0, 0, 0, 0, 0>>

\* The settings LoadConfig leaves behind for a set of configured actors.
\* The animation settings and counters of one gauge layer as the statics
\* start: no animation, one frame, speed 5, frame 0 shown.  image: the layer's
\* picture is loaded with a non-zero size (the bar's own picture is an input
\* of the draw).
NoAnimation ==
    [useAnimation |-> FALSE, frameCount |-> 1, animationSpeed |-> 5, animationCounter |-> 0,
     currentFrame |-> 0, filledFrames |-> << >>, unfilledFrames |-> << >>, image |-> FALSE]

LBConfig(configured, useFour, ultimateVarId) ==
    [ limitCommandId |-> 1,
      ultimateLimitCommandId |-> 2,
      ultimateLimitVarId |-> ultimateVarId,
      useFourActorsForUltimate |-> useFour,
      actorConfig |-> [a \in configured |->
                          [limitVarId |-> LimitVarOf(a),
                           modeVarId |-> ModeVarOf(a),
                           defaultMode |-> 0,
                           limitSkillVarId |-> 0,
                           defaultLimitSkillId |-> 30 + a]],
      actorUltimateLimitSkillId |-> [a \in LBActorIds |-> IF a = 1 THEN 50 ELSE 0],
      equipmentMultipliers |-> EquipmentHalves,
      drawUltimateBar |-> TRUE,
      ultimateBarSwitchId |-> 0,
      playSound100Percent |-> TRUE,
      sound100PercentFile |-> "flash1",
      animation |-> [bg |-> NoAnimation, bar |-> NoAnimation, fg |-> NoAnimation] ]

\* RPG::Actor::partyMember(index): the actor at a battle position, 0 for nullptr.
partyMember(pty, index) == IF index + 1 \in DOMAIN pty THEN pty[index + 1] ELSE 0

\* static_cast<int>(n / d * multiplier) for n >= 0, d > 0 and a multiplier of
\* m2 halves (n * m2 / (2 * d)): the exact quotient truncated, or, when it does
\* not fit an int, whatever the undefined conversion produces (ub).
ScaledCast(n, d, m2, ub) ==
    LET q == n \div (2 * d)
        r == n % (2 * d)
        t == (r * m2) \div (2 * d)
    IN  IF q > 0 /\ m2 > (INT_MAX - t) \div q THEN ub ELSE q * m2 + t

\* a + b in int arithmetic; signed overflow is undefined (ub).
AddInt(a, b, ub) ==
    IF (b > 0 /\ a > INT_MAX - b) \/ (b < 0 /\ a < INT_MIN - b) THEN ub ELSE a + b

\* a / n in int arithmetic (n > 0): the quotient truncated toward zero.
TruncDiv(a, n) == IF a >= 0 THEN a \div n ELSE (a + n - 1) \div n

\* Mutant of getActorMode: a mode variable above 4 disables the gains instead
\* of selecting the profile's default mode.
getActorMode_OutOfRangeDisables(vs, cfg, actorId) ==
    IF actorId \notin DOMAIN cfg.actorConfig THEN -1
    ELSE LET currentMode == vs[cfg.actorConfig[actorId].modeVarId]
         IN  IF currentMode < 0 THEN -1
             ELSE IF currentMode <= 4 THEN currentMode
             ELSE -1

getActorMode(vs, cfg, actorId) ==
    IF actorId \notin DOMAIN cfg.actorConfig THEN -1
    ELSE LET currentMode == vs[cfg.actorConfig[actorId].modeVarId]
         IN  IF currentMode < 0 THEN -1
             ELSE IF currentMode <= 4 THEN currentMode
             ELSE cfg.actorConfig[actorId].defaultMode

getActorLimitSkillId(vs, cfg, actorId) ==
    IF actorId \notin DOMAIN cfg.actorConfig THEN 0
    ELSE LET c == cfg.actorConfig[actorId]
         IN  IF c.limitSkillVarId > 0 /\ vs[c.limitSkillVarId] > 0
             THEN vs[c.limitSkillVarId]
             ELSE c.defaultLimitSkillId

getActorUltimateLimitSkillId(cfg, actorId) == cfg.actorUltimateLimitSkillId[actorId]

RECURSIVE EquipmentSum(_, _, _)
EquipmentSum(cfg, slots, i) ==
    IF i > Len(slots) THEN 0
    ELSE (IF slots[i] > 0 /\ slots[i] \in DOMAIN cfg.equipmentMultipliers
          THEN cfg.equipmentMultipliers[slots[i]] ELSE 0)
         + EquipmentSum(cfg, slots, i + 1)

\* The multiplier of an actor, in halves: base 1.0 plus the configured items,
\* floored at 0.
getEquipmentMultiplier(cfg, eq, actorId) ==
    IF actorId = 0 THEN 2 ELSE Max(0, 2 + EquipmentSum(cfg, eq[actorId], 1))

applyLimitGain(vs, cfg, eq, isMonster, actorId, percentGain, ub) ==
    IF isMonster \/ actorId = 0 THEN vs
    ELSE IF actorId \notin DOMAIN cfg.actorConfig THEN vs
    ELSE IF getActorMode(vs, cfg, actorId) < 0 THEN vs
    ELSE LET multiplier == getEquipmentMultiplier(cfg, eq, actorId)
             adjustedGain == ScaledCast(percentGain, 1, multiplier, ub)
             varId == cfg.actorConfig[actorId].limitVarId
         IN  [vs EXCEPT ![varId] = Min(100, AddInt(vs[varId], adjustedGain, ub))]

\* Variant of TotalLimitValue that adds up the meters of every battle position,
\* not only the first `required` ones.
RECURSIVE TotalLimitValue_AllSlots(_, _, _, _, _, _, _)
TotalLimitValue_AllSlots(vs, cfg, pty, battlePosIdx, required, total, ub) ==
    IF battlePosIdx >= 4 THEN total
    ELSE LET actorId == partyMember(pty, battlePosIdx)
         IN  IF actorId = 0 \/ actorId \notin DOMAIN cfg.actorConfig
             THEN TotalLimitValue_AllSlots(vs, cfg, pty, battlePosIdx + 1, required, total, ub)
             ELSE TotalLimitValue_AllSlots(vs, cfg, pty, battlePosIdx + 1, required,
                                           AddInt(total, vs[cfg.actorConfig[actorId].limitVarId], ub),
                                           ub)

\* First loop of updateUltimateLimitBar: the meters of the configured actors in
\* the first `required` battle positions, added up.
RECURSIVE TotalLimitValue(_, _, _, _, _, _, _)
TotalLimitValue(vs, cfg, pty, battlePosIdx, required, total, ub) ==
    IF battlePosIdx >= required THEN total
    ELSE LET actorId == partyMember(pty, battlePosIdx)
         IN  IF actorId = 0 \/ actorId \notin DOMAIN cfg.actorConfig
             THEN TotalLimitValue(vs, cfg, pty, battlePosIdx + 1, required, total, ub)
             ELSE TotalLimitValue(vs, cfg, pty, battlePosIdx + 1, required,
                                  AddInt(total, vs[cfg.actorConfig[actorId].limitVarId], ub),
                                  ub)

\* Second loop: counts configured actors and stops at the first one below 100.
RECURSIVE MaxScan(_, _, _, _, _, _)
MaxScan(vs, cfg, pty, battlePosIdx, required, count) ==
    IF battlePosIdx >= required THEN [allAtMax |-> TRUE, count |-> count]
    ELSE LET actorId == partyMember(pty, battlePosIdx)
         IN  IF actorId = 0 \/ actorId \notin DOMAIN cfg.actorConfig
             THEN MaxScan(vs, cfg, pty, battlePosIdx + 1, required, count)
             ELSE IF vs[cfg.actorConfig[actorId].limitVarId] < 100
             THEN [allAtMax |-> FALSE, count |-> count + 1]
             ELSE MaxScan(vs, cfg, pty, battlePosIdx + 1, required, count + 1)

requiredPartySize(cfg) == IF cfg.useFourActorsForUltimate THEN 4 ELSE 3

currentPartySize(pty) == Cardinality({i \in 0..3 : partyMember(pty, i) # 0})

updateUltimateLimitBar(vs, cfg, pty, ub) ==
    IF cfg.ultimateLimitVarId <= 0 THEN vs
    ELSE IF currentPartySize(pty) < requiredPartySize(cfg)
    THEN [vs EXCEPT ![cfg.ultimateLimitVarId] = 0]
    ELSE LET required == requiredPartySize(cfg)
             totalLimitValue == TotalLimitValue(vs, cfg, pty, 0, required, 0, ub)
             scan == MaxScan(vs, cfg, pty, 0, required, 0)
             ultimateValue ==
                 IF scan.allAtMax /\ scan.count > 0 /\ scan.count = required
                 THEN 100
                 ELSE TruncDiv(totalLimitValue, required)
         IN  [vs EXCEPT ![cfg.ultimateLimitVarId] = Min(100, Max(0, ultimateValue))]

\* RPG::Actor::getMaxHp and RPG::Monster::getMaxHp.
ActorMaxHpOf(a) == ActorMaxHp

MonsterMaxHpOf(m) == MonsterMaxHp

\* Sum of f over the finite set S.
RECURSIVE SetSum(_, _)
SetSum(f, S) ==
    IF S = {} THEN 0 ELSE LET x == CHOOSE y \in S : TRUE IN f[x] + SetSum(f, S \ {x})

\* HP readings of the battlers at one moment, and a cleared preHP map.
NoHP == [actor |-> << >>, monster |-> << >>]

checkActorHealing(vs, cfg, eq, pre, hp, actor, ub) ==
    IF actor = 0 THEN vs
    ELSE IF getActorMode(vs, cfg, actor) # 3 THEN vs
    ELSE LET healed == {t \in DOMAIN pre.actor : hp.actor[t] - pre.actor[t] > 0}
             totalHealing == SetSum([t \in healed |-> hp.actor[t] - pre.actor[t]], healed)
             totalMaxHP == SetSum([t \in healed |-> ActorMaxHpOf(t)], healed)
             multiplier == getEquipmentMultiplier(cfg, eq, actor)
             gain == ScaledCast(totalHealing * 16, totalMaxHP, multiplier, ub)
         IN  IF healed # {} /\ totalMaxHP > 0 /\ gain > 0
             THEN applyLimitGain(vs, cfg, eq, FALSE, actor, gain, ub)
             ELSE vs

\* Gain one damaged monster contributes: min(16, int(damage * 30 / maxHP * multiplier)).
gainFromTarget(damage, targetMaxHP, multiplier, ub) ==
    IF targetMaxHP > 0
    THEN Min(16, ScaledCast(damage * 30, targetMaxHP, multiplier, ub))
    ELSE 0

RECURSIVE TotalGainPercent(_, _, _, _, _)
TotalGainPercent(pre, hp, targets, multiplier, ub) ==
    IF targets = {} THEN 0
    ELSE LET m == CHOOSE x \in targets : \A y \in targets : x <= y
         IN  AddInt(gainFromTarget(pre.monster[m] - hp.monster[m], MonsterMaxHpOf(m),
                                   multiplier, ub),
                    TotalGainPercent(pre, hp, targets \ {m}, multiplier, ub), ub)

checkActorDamageToMonsters(vs, cfg, eq, pre, hp, actor, ub) ==
    IF actor = 0 THEN vs
    ELSE IF getActorMode(vs, cfg, actor) \notin {1, 4} THEN vs
    ELSE IF ActorMaxHpOf(actor) <= 0 THEN vs
    ELSE LET damaged == {m \in DOMAIN pre.monster : pre.monster[m] - hp.monster[m] > 0}
             multiplier == getEquipmentMultiplier(cfg, eq, actor)
             gain == TotalGainPercent(pre, hp, damaged, multiplier, ub)
         IN  IF damaged # {} /\ gain > 0
             THEN applyLimitGain(vs, cfg, eq, FALSE, actor, gain, ub)
             ELSE vs

\* Damage an actor took since the snapshot.
actorDelta(pre, hp, a) ==
    IF a \in DOMAIN pre.actor THEN Max(0, pre.actor[a] - hp.actor[a]) ELSE 0

\* Mutant of MonsterActionGain: Comrade counts the actor's own damage too.
MonsterActionGain_CountsOwnDamage(mode, delta, totalGroupDamage, maxH, multiplier, ub) ==
    IF mode \in {0, 4}
    THEN IF delta > 0 THEN ScaledCast(delta * 30, maxH, multiplier, ub) ELSE 0
    ELSE IF mode = 2
    THEN IF totalGroupDamage > 0
         THEN ScaledCast(totalGroupDamage * 20, maxH, multiplier, ub)
         ELSE 0
    ELSE 0

\* Gain of one actor from a monster's action, by mode (0 Stoic, 2 Comrade, 4 Knight).
MonsterActionGain(mode, delta, totalGroupDamage, maxH, multiplier, ub) ==
    IF mode \in {0, 4}
    THEN IF delta > 0 THEN ScaledCast(delta * 30, maxH, multiplier, ub) ELSE 0
    ELSE IF mode = 2
    THEN IF totalGroupDamage - delta > 0
         THEN ScaledCast((totalGroupDamage - delta) * 20, maxH, multiplier, ub)
         ELSE 0
    ELSE 0

\* The loop of checkMonsterDamageToActors over RPG::actors[i .. count].
RECURSIVE MonsterDamageLoop(_, _, _, _, _, _, _)
MonsterDamageLoop(vs, cfg, eq, pre, hp, i, ub) ==
    IF i > NumActors THEN vs
    ELSE LET mode == getActorMode(vs, cfg, i)
             maxH == ActorMaxHpOf(i)
             totalGroupDamage ==
                 SetSum([a \in DOMAIN pre.actor |-> actorDelta(pre, hp, a)], DOMAIN pre.actor)
             gain == MonsterActionGain(mode, actorDelta(pre, hp, i), totalGroupDamage, maxH,
                                       getEquipmentMultiplier(cfg, eq, i), ub)
             next == IF mode < 0 \/ maxH <= 0 \/ gain <= 0
                     THEN vs
                     ELSE applyLimitGain(vs, cfg, eq, FALSE, i, gain, ub)
         IN  MonsterDamageLoop(next, cfg, eq, pre, hp, i + 1, ub)

\* enableDebugMessages only adds dialogs and a second recomputation of the
\* ultimate meter, which the caller repeats on the same meters.
checkMonsterDamageToActors(vs, cfg, eq, pre, hp, ub) ==
    MonsterDamageLoop(vs, cfg, eq, pre, hp, 1, ub)

\* Mutant of checkDamageAndApplyGain: the snapshot is kept after a detected
\* delta, so the next frame credits the same HP change again.
checkDamageAndApplyGain_KeepsSnapshot(vs, cfg, eq, pty, pre, hp, monitoring, isActorAction, actor, ub) ==
    IF ~monitoring THEN [variables |-> vs, preHP |-> pre]
    ELSE IF isActorAction
    THEN LET damageFound ==
                 \/ \E m \in DOMAIN pre.monster : pre.monster[m] - hp.monster[m] > 0
                 \/ \E a \in DOMAIN pre.actor : hp.actor[a] - pre.actor[a] > 0
             afterDamage == checkActorDamageToMonsters(vs, cfg, eq, pre, hp, actor, ub)
             afterHealing == checkActorHealing(afterDamage, cfg, eq, pre, hp, actor, ub)
         IN  IF damageFound
             THEN [variables |-> updateUltimateLimitBar(afterHealing, cfg, pty, ub), preHP |-> pre]
             ELSE [variables |-> vs, preHP |-> pre]
    ELSE LET damageFound == \E a \in DOMAIN pre.actor : pre.actor[a] - hp.actor[a] > 0
             afterDamage == checkMonsterDamageToActors(vs, cfg, eq, pre, hp, ub)
         IN  IF damageFound
             THEN [variables |-> updateUltimateLimitBar(afterDamage, cfg, pty, ub), preHP |-> pre]
             ELSE [variables |-> vs, preHP |-> pre]

\* checkDamageAndApplyGain: the new variables and the new preHP.
checkDamageAndApplyGain(vs, cfg, eq, pty, pre, hp, monitoring, isActorAction, actor, ub) ==
    IF ~monitoring THEN [variables |-> vs, preHP |-> pre]
    ELSE IF isActorAction
    THEN LET damageFound ==
                 \/ \E m \in DOMAIN pre.monster : pre.monster[m] - hp.monster[m] > 0
                 \/ \E a \in DOMAIN pre.actor : hp.actor[a] - pre.actor[a] > 0
             afterDamage == checkActorDamageToMonsters(vs, cfg, eq, pre, hp, actor, ub)
             afterHealing == checkActorHealing(afterDamage, cfg, eq, pre, hp, actor, ub)
         IN  IF damageFound
             THEN [variables |-> updateUltimateLimitBar(afterHealing, cfg, pty, ub),
                   preHP |-> [actor |-> hp.actor, monster |-> hp.monster]]
             ELSE [variables |-> vs, preHP |-> pre]
    ELSE LET damageFound == \E a \in DOMAIN pre.actor : pre.actor[a] - hp.actor[a] > 0
             afterDamage == checkMonsterDamageToActors(vs, cfg, eq, pre, hp, ub)
         IN  IF damageFound
             THEN [variables |-> updateUltimateLimitBar(afterDamage, cfg, pty, ub),
                   preHP |-> [actor |-> hp.actor, monster |-> << >>]]
             ELSE [variables |-> vs, preHP |-> pre]

\* What the host hands to the callbacks in the model.
LBActions ==
    {EngineAction("AK_BASIC", "BA_ATTACK", 0), EngineAction("AK_BASIC", "BA_DEFEND", 0)}

LBFirstCommands == {1, 2, 3}

\* HP readings: every battler at full HP, or exactly one of actor 1, actor 2
\* and the monster knocked down to 0.
FullHP == [actor |-> [a \in LBActorIds |-> ActorMaxHp],
           monster |-> [m \in LBMonsters |-> MonsterMaxHp]]

LBHpReadings ==
    {FullHP}
    \cup {[FullHP EXCEPT !.actor[a] = 0] : a \in {1, 2}}
    \cup {[FullHP EXCEPT !.monster[m] = 0] : m \in LBMonsters}

\* Parties: the first 2 or 3 actors in database order.
LBParties == {[i \in 1..n |-> i] : n \in 2..3}

\* Outcomes of an out-of-range float-to-int conversion.
UBOutcomes == {INT_MIN, INT_MAX}

\* A test that takes every basic action (defending included) for an attack.
IsBasicAttack_AnyBasicAction(action) == action.kind = "AK_BASIC"

\* A test that looks at the basic action id only, whatever the action's kind.
IsBasicAttack_AnyKind(action) == action.basicActionId \in {"BA_ATTACK", "BA_DOUBLE_ATTACK"}

IsBasicAttack(action) ==
    action.kind = "AK_BASIC" /\ action.basicActionId \in {"BA_ATTACK", "BA_DOUBLE_ATTACK"}

\* Limit part of onDoBattlerAction for an acting actor.
LimitRewrite(vs, cfg, pty, selected, actorId, action, firstCommand, ub) ==
    LET isLimitCommand == firstCommand = cfg.limitCommandId
        attempt == (selected \/ isLimitCommand) /\ IsBasicAttack(action)
        fire == /\ attempt
                /\ actorId \in DOMAIN cfg.actorConfig
                /\ vs[cfg.actorConfig[actorId].limitVarId] >= 100
    IN  [variables |->
             IF fire
             THEN updateUltimateLimitBar(
                      [vs EXCEPT ![cfg.actorConfig[actorId].limitVarId] = 0], cfg, pty, ub)
             ELSE vs,
         action |->
             IF fire
             THEN [action EXCEPT !.kind = "AK_SKILL",
                                 !.skillId = getActorLimitSkillId(vs, cfg, actorId)]
             ELSE action,
         selected |-> IF attempt THEN FALSE ELSE selected]

\* A zeroing loop that stops one battle position early.
RECURSIVE ZeroPartyMeters_StopsEarly(_, _, _, _, _)
ZeroPartyMeters_StopsEarly(vs, cfg, pty, i, maxPartyMembers) ==
    IF i >= maxPartyMembers - 1 THEN vs
    ELSE LET memberId == partyMember(pty, i)
             next == IF memberId # 0 /\ memberId \in DOMAIN cfg.actorConfig
                     THEN [vs EXCEPT ![cfg.actorConfig[memberId].limitVarId] = 0]
                     ELSE vs
         IN  ZeroPartyMeters_StopsEarly(next, cfg, pty, i + 1, maxPartyMembers)

\* The loop that zeroes the meters of the configured actors in the first
\* maxPartyMembers battle positions.
RECURSIVE ZeroPartyMeters(_, _, _, _, _)
ZeroPartyMeters(vs, cfg, pty, i, maxPartyMembers) ==
    IF i >= maxPartyMembers THEN vs
    ELSE LET memberId == partyMember(pty, i)
             next == IF memberId # 0 /\ memberId \in DOMAIN cfg.actorConfig
                     THEN [vs EXCEPT ![cfg.actorConfig[memberId].limitVarId] = 0]
                     ELSE vs
         IN  ZeroPartyMeters(next, cfg, pty, i + 1, maxPartyMembers)

\* Ultimate part of onDoBattlerAction for an acting actor.
UltimateRewrite(vs, cfg, pty, selected, actorId, action, firstCommand, ub) ==
    LET isUltimateLimitCommand ==
            cfg.ultimateLimitCommandId > 0 /\ firstCommand = cfg.ultimateLimitCommandId
        attempt == (selected \/ isUltimateLimitCommand) /\ IsBasicAttack(action)
        ultimateLimitSkillId == getActorUltimateLimitSkillId(cfg, actorId)
        fire == /\ attempt
                /\ vs[cfg.ultimateLimitVarId] >= 100
                /\ ultimateLimitSkillId > 0
        zeroed == ZeroPartyMeters([vs EXCEPT ![cfg.ultimateLimitVarId] = 0], cfg, pty, 0,
                                  requiredPartySize(cfg))
    IN  [variables |-> IF fire THEN updateUltimateLimitBar(zeroed, cfg, pty, ub) ELSE vs,
         action |->
             IF fire
             THEN [action EXCEPT !.kind = "AK_SKILL", !.skillId = ultimateLimitSkillId]
             ELSE action,
         selected |-> IF attempt THEN FALSE ELSE selected]

\* History: whether the last step was onFrame, another callback or the host,
\* and the party size the last in-battle onFrame saw (-1 once another
\* callback has run).
LBLast(hook, frameParty) ==
    [hook |-> hook, frameParty |-> frameParty, drawn |-> FALSE, sound |-> FALSE]

\* History of onDoBattlerAction: the last callback was another one, or it
\* returned before looking at the action.
NoRewrite == [called |-> FALSE]

\* State right after onStartup, outside battle.
LBConstructed ==
    /\ limitCommandSelected = FALSE
    /\ ultimateLimitCommandSelected = FALSE
    /\ preHP = NoHP
    /\ nextIsActorAction = FALSE
    /\ lastActionActor = 0
    /\ monitoringDamage = FALSE
    /\ wasInBattle = FALSE
    /\ wasAt100Percent = FALSE
    /\ lbLast = LBLast("callback", -1)
    /\ lbAction = NoRewrite

LBIdle ==
    /\ LBConstructed
    /\ limitBreakConfig = LBConfig({}, FALSE, 0)
    /\ equipment = [a \in LBActorIds |-> NoEquipment]
    /\ party = << >>
    /\ overflowResult = INT_MIN

LB_onDrawBattleStatusWindow(x, selection, selActive, isTargetSelection, isVisible, firstCommand) ==
    LET cfg == limitBreakConfig
        active == ~isTargetSelection /\ selActive /\ isVisible /\ partyMember(party, x) # 0
    IN  /\ limitCommandSelected' =
               IF active
               THEN firstCommand = cfg.limitCommandId /\ selection = 0
               ELSE limitCommandSelected
        /\ ultimateLimitCommandSelected' =
               IF active
               THEN /\ cfg.ultimateLimitCommandId > 0
                    /\ firstCommand = cfg.ultimateLimitCommandId
                    /\ selection = 0
               ELSE ultimateLimitCommandSelected
        /\ lbLast' = LBLast("callback", -1)
        /\ lbAction' = NoRewrite
        /\ UNCHANGED <<variables, limitBreakConfig, equipment, party, overflowResult, preHP,
                       nextIsActorAction, lastActionActor, monitoringDamage, wasInBattle,
                       wasAt100Percent, nonLBVars>>

\* The Limit part and then the Ultimate part of onDoBattlerAction, on the
\* current state: what each leaves of the variables, the action and its flag.
ActionRewrite(actorId, action, firstCommand) ==
    LET cfg == limitBreakConfig
        ub == overflowResult
        limit == LimitRewrite(variables, cfg, party, limitCommandSelected, actorId, action,
                              firstCommand, ub)
        ultimate == UltimateRewrite(limit.variables, cfg, party, ultimateLimitCommandSelected,
                                    actorId, limit.action, firstCommand, ub)
    IN  [limit |-> limit, ultimate |-> ultimate]

\* What onDoBattlerAction does to battler->action, as a history record: the
\* action it was given and the action it leaves.
ObservedRewrite(isMonster, actorId, firstTry, action, firstCommand) ==
    IF firstTry /\ ~isMonster
    THEN [called |-> TRUE, actorId |-> actorId, firstCommand |-> firstCommand,
          given |-> action,
          action |-> ActionRewrite(actorId, action, firstCommand).ultimate.action]
    ELSE NoRewrite

\* battler->action as onDoBattlerAction leaves it: the hook returns at once
\* when it is no first try, and looks at the action of an actor only.
HookAction(isMonster, actorId, firstTry, action, firstCommand) ==
    IF ~firstTry THEN action
    ELSE IF isMonster THEN action
    ELSE ActionRewrite(actorId, action, firstCommand).ultimate.action

\* History of onDoBattlerAction where the host calls DirectSkills for the same
\* battler action as well: the inputs of the call, whether DirectSkills came
\* before (order = 2) or comes after (order = 1), and what the Limit part and
\* the Ultimate part did to the action and to the variables.
HookRecord(order, isMonster, actorId, firstTry, action, firstCommand) ==
    LET acts == firstTry /\ ~isMonster
        limit == ActionRewrite(actorId, action, firstCommand).limit
        ultimate == ActionRewrite(actorId, action, firstCommand).ultimate
    IN  [called |-> TRUE, order |-> order, isMonster |-> isMonster, actorId |-> actorId,
         firstTry |-> firstTry, firstCommand |-> firstCommand, given |-> action,
         action |-> HookAction(isMonster, actorId, firstTry, action, firstCommand),
         limitRewrote |-> acts /\ limit.action # action,
         limitReset |-> acts /\ limit.variables # variables,
         ultimateRewrote |-> acts /\ ultimate.action # limit.action,
         ultimateReset |-> acts /\ ultimate.variables # limit.variables]

\* onDoBattlerAction.  The history variable lbAction is set by the
\* specification, for this hook, for onBattlerActionDone and for onFrame: to
\* NoRewrite, or to a record of the call where the calls are observed.
LB_onDoBattlerAction(isMonster, actorId, firstTry, action, firstCommand, hp) ==
    LET limit == ActionRewrite(actorId, action, firstCommand).limit
        ultimate == ActionRewrite(actorId, action, firstCommand).ultimate
    IN  /\ lbLast' = LBLast("callback", -1)
        /\ IF ~firstTry
           THEN UNCHANGED <<variables, limitCommandSelected, ultimateLimitCommandSelected,
                            preHP, nextIsActorAction, lastActionActor, monitoringDamage>>
           ELSE /\ monitoringDamage' = FALSE
                /\ nextIsActorAction' = ~isMonster
                /\ lastActionActor' = IF isMonster THEN 0 ELSE actorId
                /\ variables' = IF isMonster THEN variables ELSE ultimate.variables
                /\ limitCommandSelected' =
                       IF isMonster THEN limitCommandSelected ELSE limit.selected
                /\ ultimateLimitCommandSelected' =
                       IF isMonster THEN ultimateLimitCommandSelected ELSE ultimate.selected
                /\ preHP' = [actor |-> hp.actor,
                             monster |-> IF isMonster THEN << >> ELSE hp.monster]
        /\ UNCHANGED <<limitBreakConfig, equipment, party, overflowResult, wasInBattle,
                       wasAt100Percent, nonLBVars>>

\* A post-action hook that starts the monitoring whatever the action's success.
LB_onBattlerActionDone_AlwaysMonitors(isMonster, actorId, success) ==
    /\ lbLast' = LBLast("callback", -1)
    /\ monitoringDamage' = TRUE
    /\ variables' = IF success
                    THEN updateUltimateLimitBar(variables, limitBreakConfig, party,
                                                overflowResult)
                    ELSE variables
    /\ UNCHANGED <<limitBreakConfig, equipment, party, overflowResult, limitCommandSelected,
                   ultimateLimitCommandSelected, preHP, nextIsActorAction, lastActionActor,
                   wasInBattle, wasAt100Percent, nonLBVars>>

LB_onBattlerActionDone(isMonster, actorId, success) ==
    /\ lbLast' = LBLast("callback", -1)
    /\ IF ~success
       THEN UNCHANGED <<variables, monitoringDamage>>
       ELSE /\ monitoringDamage' = TRUE
            /\ variables' = updateUltimateLimitBar(variables, limitBreakConfig, party,
                                                   overflowResult)
    /\ UNCHANGED <<limitBreakConfig, equipment, party, overflowResult, limitCommandSelected,
                   ultimateLimitCommandSelected, preHP, nextIsActorAction, lastActionActor,
                   wasInBattle, wasAt100Percent, nonLBVars>>

LB_onFrame(scene, hp) ==
    LET cfg == limitBreakConfig
        ub == overflowResult
        isInBattle == scene = "SCENE_BATTLE"
        entered == IF ~wasInBattle
                   THEN updateUltimateLimitBar(variables, cfg, party, ub)
                   ELSE variables
        checked == checkDamageAndApplyGain(entered, cfg, equipment, party, preHP, hp,
                                           monitoringDamage, nextIsActorAction,
                                           lastActionActor, ub)
    IN  /\ lbLast' = LBLast("onFrame", IF isInBattle THEN currentPartySize(party) ELSE -1)
        /\ wasInBattle' = isInBattle
        /\ wasAt100Percent' = IF wasInBattle # isInBattle THEN FALSE ELSE wasAt100Percent
        /\ IF ~isInBattle
           THEN /\ monitoringDamage' = FALSE
                /\ variables' = IF wasInBattle /\ cfg.ultimateLimitVarId \in DOMAIN variables
                                THEN [variables EXCEPT ![cfg.ultimateLimitVarId] = 0]
                                ELSE variables
                /\ UNCHANGED preHP
           ELSE /\ variables' = checked.variables
                /\ preHP' = checked.preHP
                /\ UNCHANGED monitoringDamage
        /\ UNCHANGED <<limitBreakConfig, equipment, party, overflowResult, limitCommandSelected,
                       ultimateLimitCommandSelected, nextIsActorAction, lastActionActor,
                       nonLBVars>>

\* The host changes the party between callbacks (an event command).
LB_HostChangesParty(newParty) ==
    /\ newParty # party
    /\ party' = newParty
    /\ lbLast' = LBLast("host", lbLast.frameParty)
    /\ lbAction' = NoRewrite
    /\ UNCHANGED <<variables, limitBreakConfig, equipment, overflowResult, limitCommandSelected,
                   ultimateLimitCommandSelected, preHP, nextIsActorAction, lastActionActor,
                   monitoringDamage, wasInBattle, wasAt100Percent, nonLBVars>>

\* parseIntList: the digits between commas, every other character dropped,
\* an empty item skipped.
RECURSIVE ParseIntListLoop(_, _, _)
ParseIntListLoop(str, result, current) ==
    IF str = << >>
    THEN IF current # << >> THEN Append(result, ParseDigits(current, 0, 0).val) ELSE result
    ELSE IF Head(str) = ","
    THEN ParseIntListLoop(Tail(str),
                          IF current # << >> THEN Append(result, ParseDigits(current, 0, 0).val)
                          ELSE result,
                          << >>)
    ELSE ParseIntListLoop(Tail(str), result,
                          IF IsDigit(Head(str)) THEN Append(current, Head(str)) ELSE current)

parseIntList(str) == ParseIntListLoop(str, << >>, << >>)

\* The loader's validation of a frame list: indices outside 0 .. frameCount - 1
\* are erased.
RECURSIVE ValidFrames(_, _)
ValidFrames(frames, frameCount) ==
    IF frames = << >> THEN << >>
    ELSE IF Head(frames) < 0 \/ Head(frames) >= frameCount
    THEN ValidFrames(Tail(frames), frameCount)
    ELSE <<Head(frames)>> \o ValidFrames(Tail(frames), frameCount)

\* LoadConfig on the animation keys of one layer (an absent list key is
\* << >>): the lists parsed and validated, and the default lists where
\* animation is on and a list is empty.
LoadAnimation(ini) ==
    LET frameCount == Max(1, ini.frameCount)
        animated == ini.useAnimation /\ frameCount > 1
        unfilled == ValidFrames(parseIntList(ini.unfilledFrames), frameCount)
        filled == ValidFrames(parseIntList(ini.filledFrames), frameCount)
    IN  [NoAnimation EXCEPT
            !.useAnimation = ini.useAnimation,
            !.frameCount = frameCount,
            !.animationSpeed = Max(1, ini.animationSpeed),
            !.unfilledFrames = IF animated /\ unfilled = << >> THEN <<0>> ELSE unfilled,
            !.filledFrames = IF animated /\ filled = << >>
                             THEN [i \in 1..(frameCount - 1) |-> i]
                             ELSE filled]

\* The frame after currentFrame: the entry that follows the first entry of
\* the active list equal to currentFrame (the first entry's successor when
\* none is equal), or the next frame of the picture when the list is empty.
NextFrame(activeFrames, currentFrame, frameCount) ==
    IF activeFrames # << >>
    THEN LET found == {i \in DOMAIN activeFrames : activeFrames[i] = currentFrame}
             currentIndex == IF found = {} THEN 0
                             ELSE (CHOOSE i \in found : \A j \in found : i <= j) - 1
         IN  activeFrames[((currentIndex + 1) % Len(activeFrames)) + 1]
    ELSE (currentFrame + 1) % frameCount

\* One draw of an animated layer: the counter goes up, and the frame advances
\* when the counter reaches the speed.
AdvanceLayer(layer, fill) ==
    IF layer.useAnimation /\ layer.frameCount > 1
    THEN IF layer.animationCounter + 1 >= layer.animationSpeed
         THEN [layer EXCEPT
                  !.animationCounter = 0,
                  !.currentFrame =
                      NextFrame(IF fill = 100 THEN layer.filledFrames ELSE layer.unfilledFrames,
                                layer.currentFrame, layer.frameCount)]
         ELSE [layer EXCEPT !.animationCounter = layer.animationCounter + 1]
    ELSE layer

\* The three layers after a complete draw: background and foreground advance
\* when their picture is loaded, the bar always.
DrawnAnimation(animation, fill) ==
    [bg |-> IF animation.bg.image THEN AdvanceLayer(animation.bg, fill) ELSE animation.bg,
     bar |-> AdvanceLayer(animation.bar, fill),
     fg |-> IF animation.fg.image THEN AdvanceLayer(animation.fg, fill) ELSE animation.fg]

\* onDrawBattleActionWindow, which only calls drawUltimateLimitBar.  winParty:
\* the party window exists; switchValue: RPG::switches[ultimateBarSwitchId];
\* barImage: bar.png is loaded with a non-zero size.  The draw is complete
\* when none of the early returns is taken; it then updates wasAt100Percent,
\* advances the animation of the layers and paints.
\* A gauge draw that plays the sound on every completed draw at fill 100.
LB_onDrawBattleActionWindow_EveryDraw(winParty, switchValue, barImage) ==
    LET cfg == limitBreakConfig
        complete == /\ cfg.ultimateLimitVarId > 0
                    /\ cfg.drawUltimateBar
                    /\ winParty
                    /\ (cfg.ultimateBarSwitchId > 0 => switchValue)
                    /\ currentPartySize(party) >= requiredPartySize(cfg)
                    /\ barImage
        fill == Max(0, Min(100, variables[cfg.ultimateLimitVarId]))
        play == /\ complete
                /\ cfg.playSound100Percent
                /\ fill = 100
                /\ cfg.sound100PercentFile # ""
    IN  /\ wasAt100Percent' = IF complete THEN fill = 100 ELSE wasAt100Percent
        /\ lbLast' = [LBLast("onDrawBattleActionWindow", -1) EXCEPT !.drawn = complete,
                                                                   !.sound = play]
        /\ lbAction' = NoRewrite
        /\ limitBreakConfig' =
               IF complete THEN [cfg EXCEPT !.animation = DrawnAnimation(cfg.animation, fill)]
               ELSE cfg
        /\ UNCHANGED <<variables, equipment, party, overflowResult,
                       limitCommandSelected, ultimateLimitCommandSelected, preHP,
                       nextIsActorAction, lastActionActor, monitoringDamage, wasInBattle,
                       nonLBVars>>

LB_onDrawBattleActionWindow(winParty, switchValue, barImage) ==
    LET cfg == limitBreakConfig
        complete == /\ cfg.ultimateLimitVarId > 0
                    /\ cfg.drawUltimateBar
                    /\ winParty
                    /\ (cfg.ultimateBarSwitchId > 0 => switchValue)
                    /\ currentPartySize(party) >= requiredPartySize(cfg)
                    /\ barImage
        fill == Max(0, Min(100, variables[cfg.ultimateLimitVarId]))
        play == /\ complete
                /\ cfg.playSound100Percent
                /\ fill = 100
                /\ ~wasAt100Percent
                /\ cfg.sound100PercentFile # ""
    IN  /\ wasAt100Percent' = IF complete THEN fill = 100 ELSE wasAt100Percent
        /\ lbLast' = [LBLast("onDrawBattleActionWindow", -1) EXCEPT !.drawn = complete,
                                                                   !.sound = play]
        /\ lbAction' = NoRewrite
        /\ limitBreakConfig' =
               IF complete THEN [cfg EXCEPT !.animation = DrawnAnimation(cfg.animation, fill)]
               ELSE cfg
        /\ UNCHANGED <<variables, equipment, party, overflowResult,
                       limitCommandSelected, ultimateLimitCommandSelected, preHP,
                       nextIsActorAction, lastActionActor, monitoringDamage, wasInBattle,
                       nonLBVars>>

\* The game writes one of its variables between callbacks (an event command).
LB_HostSetsVariable(id, value) ==
    /\ variables' = [variables EXCEPT ![id] = value]
    /\ lbLast' = LBLast("host", lbLast.frameParty)
    /\ lbAction' = NoRewrite
    /\ UNCHANGED <<limitBreakConfig, equipment, party, overflowResult, limitCommandSelected,
                   ultimateLimitCommandSelected, preHP, nextIsActorAction, lastActionActor,
                   monitoringDamage, wasInBattle, wasAt100Percent, nonLBVars>>

\* One recomputation of the ultimate meter on the current state.
LB_updateUltimateLimitBar ==
    /\ variables' = updateUltimateLimitBar(variables, limitBreakConfig, party, overflowResult)
    /\ lbLast' = LBLast("updateUltimateLimitBar", -1)
    /\ lbAction' = NoRewrite
    /\ UNCHANGED <<limitBreakConfig, equipment, party, overflowResult, limitCommandSelected,
                   ultimateLimitCommandSelected, preHP, nextIsActorAction, lastActionActor,
                   monitoringDamage, wasInBattle, wasAt100Percent, nonLBVars>>

(***************************************************************************)
(* BareHanded                                                              *)
(***************************************************************************)
\* Bounds of the model: weapon ids run from 1 to MaxWeaponId.
MaxWeaponId == 2

\* The loader's default for MaxActorId.
DEFAULT_MAX_ACTOR_ID == 20

\* Actors the configurations of the model mention, and the variables they bind.
BHConfigActors == {1, 2, 3}

BHVarIds == {1}

BHVarValues == {-1} \cup (0..MaxWeaponId)

\* Actors whose twoWeapons flag is set in the database.
BHTwoWeapons == {2}

BHScenes == {"SCENE_MAP", "SCENE_MENU", "SCENE_SHOP", "SCENE_BATTLE"}

\* actor->weaponId and actor->shieldId are the first two equipment slots.
SetWeapon(eq, actor, id) == [eq EXCEPT ![actor][1] = id]

SetShield(eq, actor, id) == [eq EXCEPT ![actor][2] = id]

\* std::stoi of a key's text, keeping fallback when the text does not parse.
StoiOr(text, fallback) == IF Stoi(text).ok THEN Stoi(text).val ELSE fallback

\* BareHandedConfig::LoadConfig.  A key that is absent has the text << >>; the
\* loop over the actor ids ends early once no key of the ini is left.
RECURSIVE BHLoadActors(_, _, _, _)
BHLoadActors(ini, acc, actorId, maxActorId) ==
    IF actorId > maxActorId \/ (\A k \in DOMAIN ini.weapon \cup DOMAIN ini.variable : k < actorId)
    THEN acc
    ELSE LET weaponId == IF actorId \in DOMAIN ini.weapon THEN StoiOr(ini.weapon[actorId], 0) ELSE 0
             variableId == IF actorId \in DOMAIN ini.variable THEN StoiOr(ini.variable[actorId], 0) ELSE 0
             withWeapon == IF weaponId > 0 THEN MapPut(acc.weapon, actorId, weaponId) ELSE acc.weapon
             withVariable == IF variableId > 0 THEN MapPut(acc.variable, actorId, variableId)
                             ELSE acc.variable
         IN  BHLoadActors(ini, [weapon |-> withWeapon, variable |-> withVariable], actorId + 1,
                          maxActorId)

BH_LoadConfig(ini) ==
    BHLoadActors(ini, [weapon |-> EmptyMap, variable |-> EmptyMap], 1,
                 StoiOr(ini.maxActorId, DEFAULT_MAX_ACTOR_ID))

\* hasNoWeapons: a party member with an empty weapon slot, unless it wields two
\* weapons and holds one in the shield slot.
hasNoWeapons(eq, actor) ==
    /\ actor # 0
    /\ eq[actor][1] = 0
    /\ ~(actor \in BHTwoWeapons /\ eq[actor][2] > 0)

\* The fixed bare-hand weapon of an unarmed actor.
EquipFixed(eq, wmap, actor) ==
    IF actor \in DOMAIN wmap /\ wmap[actor] > 0 THEN SetWeapon(eq, actor, wmap[actor]) ELSE eq

\* updateBareHand: the variable-based weapon, if the weapon slot is still empty.
EquipVariable(eq, vs, vmap, actor) ==
    IF actor \in DOMAIN vmap /\ eq[actor][1] = 0 /\ vs[vmap[actor]] > 0
    THEN SetWeapon(eq, actor, vs[vmap[actor]])
    ELSE eq

\* Mutant of updateBareHandLoop: the command returns after the first member it
\* has equipped.
RECURSIVE updateBareHandLoop_OneMember(_, _, _, _, _, _)
updateBareHandLoop_OneMember(eq, vs, pty, wmap, vmap, i) ==
    IF i >= 4 THEN eq
    ELSE LET actor == partyMember(pty, i)
             next == IF hasNoWeapons(eq, actor)
                     THEN EquipVariable(EquipFixed(eq, wmap, actor), vs, vmap, actor)
                     ELSE eq
         IN  IF next # eq THEN next
             ELSE updateBareHandLoop_OneMember(next, vs, pty, wmap, vmap, i + 1)

\* The loop of the updateBareHand command over the four party positions.
RECURSIVE updateBareHandLoop(_, _, _, _, _, _)
updateBareHandLoop(eq, vs, pty, wmap, vmap, i) ==
    IF i >= 4 THEN eq
    ELSE LET actor == partyMember(pty, i)
             next == IF hasNoWeapons(eq, actor)
                     THEN EquipVariable(EquipFixed(eq, wmap, actor), vs, vmap, actor)
                     ELSE eq
         IN  updateBareHandLoop(next, vs, pty, wmap, vmap, i + 1)

\* The updateBareHand command: the equipment and the flag it leaves.
updateBareHand(eq, vs, pty, wmap, vmap) ==
    [equipment |-> updateBareHandLoop(eq, vs, pty, wmap, vmap, 0), weaponsEquipped |-> TRUE]

\* onFrame on the map, first loop (only while weaponsEquipped is false).
RECURSIVE FrameFixedLoop(_, _, _, _)
FrameFixedLoop(eq, pty, wmap, i) ==
    IF i >= 4 THEN eq
    ELSE LET actor == partyMember(pty, i)
         IN  FrameFixedLoop(IF hasNoWeapons(eq, actor) THEN EquipFixed(eq, wmap, actor) ELSE eq,
                            pty, wmap, i + 1)

\* onFrame on the map, second loop: the variable-based weapons.
RECURSIVE FrameVariableLoop(_, _, _, _, _)
FrameVariableLoop(eq, vs, pty, vmap, i) ==
    IF i >= 4 THEN eq
    ELSE LET actor == partyMember(pty, i)
         IN  FrameVariableLoop(IF hasNoWeapons(eq, actor) THEN EquipVariable(eq, vs, vmap, actor)
                               ELSE eq,
                               vs, pty, vmap, i + 1)

\* Is id the bare-hand weapon of actor: its fixed weapon, or the positive
\* content of its variable?
IsFixedBareHand(wmap, actor, id) == actor \in DOMAIN wmap /\ id = wmap[actor]

IsVariableBareHand(vs, vmap, actor, id) ==
    actor \in DOMAIN vmap /\ vs[vmap[actor]] > 0 /\ id = vs[vmap[actor]]

\* onFrame in the menu or the shop: the loop that takes the weapons back.
RECURSIVE FrameUnequipLoop(_, _, _, _, _, _)
FrameUnequipLoop(eq, vs, pty, wmap, vmap, i) ==
    IF i >= 4 THEN eq
    ELSE LET actor == partyMember(pty, i)
             afterFixed == IF actor # 0 /\ IsFixedBareHand(wmap, actor, eq[actor][1])
                              /\ wmap[actor] > 0
                           THEN SetWeapon(eq, actor, 0)
                           ELSE eq
             afterVariable == IF actor # 0
                                 /\ IsVariableBareHand(vs, vmap, actor, afterFixed[actor][1])
                              THEN SetWeapon(afterFixed, actor, 0)
                              ELSE afterFixed
         IN  FrameUnequipLoop(afterVariable, vs, pty, wmap, vmap, i + 1)

\* findActorByVariableId: the lowest actor id bound to the variable, or 0.
findActorByVariableId(vmap, variableId) ==
    LET bound == {a \in DOMAIN vmap : vmap[a] = variableId}
    IN  IF bound = {} THEN 0 ELSE CHOOSE a \in bound : \A b \in bound : a <= b

InParty(pty, actor) == \E i \in 0..3 : partyMember(pty, i) = actor

\* The unequipBareHand command on a party member.
unequipBareHand(eq, vs, wmap, vmap, actor) ==
    LET currentWeaponId == eq[actor][1]
        afterWeapon == IF currentWeaponId > 0
                          /\ (\/ IsFixedBareHand(wmap, actor, currentWeaponId)
                              \/ IsVariableBareHand(vs, vmap, actor, currentWeaponId))
                       THEN SetWeapon(eq, actor, 0)
                       ELSE eq
        currentShieldId == afterWeapon[actor][2]
    IN  IF currentShieldId > 0
           /\ (\/ IsFixedBareHand(wmap, actor, currentShieldId)
               \/ IsVariableBareHand(vs, vmap, actor, currentShieldId))
        THEN SetShield(afterWeapon, actor, 0)
        ELSE afterWeapon

\* tolower on the command names the events of the model use.
ToLower(cmd) ==
    CASE cmd \in {"updateBareHand", "UPDATEBAREHAND"} -> "updatebarehand"
      [] cmd = "unequipBareHand" -> "unequipbarehand"
      [] OTHER -> cmd

BHCommands == {"", "updateBareHand", "UPDATEBAREHAND", "unequipBareHand", "show"}

\* What the BareHanded callbacks leave alone.
nonBHVars ==
    <<qpVars, dsVars, startup, limitBreakConfig, party, limitCommandSelected,
      ultimateLimitCommandSelected, preHP, nextIsActorAction, lastActionActor,
      monitoringDamage, wasInBattle, wasAt100Percent, overflowResult, lbLast, lbAction>>

\* The state before onStartup: empty maps, weaponsEquipped = false.
BHIdle ==
    /\ actorWeaponMap = EmptyMap
    /\ actorVariableMap = EmptyMap
    /\ weaponsEquipped = FALSE
    /\ bhLast = "none"

\* onStartup: LoadConfig, whose result (always true) goes back to the host.
BH_onStartup(ini) ==
    /\ ~startup["bare_handed"].called
    /\ actorWeaponMap' = BH_LoadConfig(ini).weapon
    /\ actorVariableMap' = BH_LoadConfig(ini).variable
    /\ bhLast' = "onStartup"
    /\ startup' = [startup EXCEPT !["bare_handed"] = Started(TRUE)]
    /\ UNCHANGED <<weaponsEquipped, variables, equipment, qpVars, dsVars, limitBreakConfig, party,
                   limitCommandSelected, ultimateLimitCommandSelected, preHP, nextIsActorAction,
                   lastActionActor, monitoringDamage, wasInBattle, wasAt100Percent,
                   overflowResult, lbLast, lbAction>>

BH_onFrame(scene) ==
    /\ bhLast' = "onFrame"
    /\ IF scene = "SCENE_MAP"
       THEN /\ equipment' =
                   FrameVariableLoop(IF ~weaponsEquipped
                                     THEN FrameFixedLoop(equipment, party, actorWeaponMap, 0)
                                     ELSE equipment,
                                     variables, party, actorVariableMap, 0)
            /\ weaponsEquipped' = TRUE
       ELSE IF scene \in {"SCENE_MENU", "SCENE_SHOP"} /\ weaponsEquipped
       THEN /\ equipment' = FrameUnequipLoop(equipment, variables, party, actorWeaponMap,
                                             actorVariableMap, 0)
            /\ weaponsEquipped' = FALSE
       ELSE UNCHANGED <<equipment, weaponsEquipped>>
    /\ UNCHANGED <<actorWeaponMap, actorVariableMap, variables, nonBHVars>>

\* onSetVariable returns true, and the host assigns the variable.
BH_onSetVariable(id, value) ==
    LET actorId == findActorByVariableId(actorVariableMap, id)
    IN  /\ bhLast' = "onSetVariable"
        /\ equipment' = IF actorId > 0 /\ value <= 0 /\ InParty(party, actorId)
                           /\ equipment[actorId][1] > 0
                        THEN SetWeapon(equipment, actorId, 0)
                        ELSE equipment
        /\ variables' = [variables EXCEPT ![id] = value]
        /\ UNCHANGED <<actorWeaponMap, actorVariableMap, weaponsEquipped, nonBHVars>>

\* onComment: command is parsedData->command, hasParameter says whether
\* parametersCount >= 1, number is parameters[0].number.
BH_onComment(command, hasParameter, number) ==
    LET cmd == ToLower(command)
        updated == updateBareHand(equipment, variables, party, actorWeaponMap, actorVariableMap)
    IN  /\ bhLast' = IF cmd \in {"unequipbarehand", "updatebarehand"} THEN cmd ELSE "onComment"
        /\ IF command = "" THEN UNCHANGED <<equipment, weaponsEquipped>>
           ELSE IF cmd = "unequipbarehand"
           THEN /\ equipment' = IF hasParameter /\ number > 0 /\ InParty(party, number)
                                THEN unequipBareHand(equipment, variables, actorWeaponMap,
                                                     actorVariableMap, number)
                                ELSE equipment
                /\ UNCHANGED weaponsEquipped
           ELSE IF cmd = "updatebarehand"
           THEN /\ equipment' = updated.equipment
                /\ weaponsEquipped' = updated.weaponsEquipped
           ELSE UNCHANGED <<equipment, weaponsEquipped>>
        /\ UNCHANGED <<actorWeaponMap, actorVariableMap, variables, nonBHVars>>

\* The host changes a member's equipment (the equipment menu, an event).
BH_HostEquips(actor, slot, id) ==
    /\ equipment[actor][slot] # id
    /\ equipment' = [equipment EXCEPT ![actor][slot] = id]
    /\ bhLast' = "host"
    /\ UNCHANGED <<actorWeaponMap, actorVariableMap, weaponsEquipped, variables, nonBHVars>>

(***************************************************************************)
(* LimitBreak: properties                                                  *)
(***************************************************************************)
ConfiguredActors == DOMAIN limitBreakConfig.actorConfig

Meter(a) == variables[limitBreakConfig.actorConfig[a].limitVarId]

\* C1: every configured actor's limit meter stays within [0,100] in every
\* state reached through the callbacks, whatever the equipment multiplier.
C1_MetersStayInRange == \A a \in ConfiguredActors : Meter(a) >= 0 /\ Meter(a) <= 100

\* C5: a frame that detects one hit of a Warrior-mode actor on a single
\* monster raises that actor's meter by at most 16, whatever the multiplier
\* and the damage.
C5_WarriorHitAtMost16 ==
    [][(/\ lbLast'.hook = "onFrame"
        /\ wasInBattle'
        /\ monitoringDamage
        /\ nextIsActorAction
        /\ lastActionActor \in ConfiguredActors
        /\ getActorMode(variables, limitBreakConfig, lastActionActor) = 1)
       => Meter(lastActionActor)' - Meter(lastActionActor) <= 16]_vars

\* The party members as a set, and those in the first N battle positions.
PartyMembers == Range(party)

FirstSlotMembers == {partyMember(party, i) : i \in 0..(requiredPartySize(limitBreakConfig) - 1)} \ {0}

\* The ultimate meter as a function of the meters of a set of members:
\* 0 below the required party size, else the floor of the configured members'
\* sum over N, and 100 when exactly N are configured and all are at 100.
UltimateOf(members) ==
    LET N == requiredPartySize(limitBreakConfig)
        configured == members \cap ConfiguredActors
        sum == SetSum([a \in configured |-> Meter(a)], configured)
    IN  IF Len(party) < N THEN 0
        ELSE IF Cardinality(configured) = N /\ \A a \in configured : Meter(a) = 100 THEN 100
        ELSE sum \div N

Recomputed == lbLast.hook = "updateUltimateLimitBar" /\ limitBreakConfig.ultimateLimitVarId > 0

C7_PartyDropZeroesUltimate ==
    [][(/\ lbLast'.hook = "onFrame"
        /\ wasInBattle
        /\ wasInBattle'
        /\ limitBreakConfig.ultimateLimitVarId > 0
        /\ lbLast.frameParty = requiredPartySize(limitBreakConfig)
        /\ currentPartySize(party) = requiredPartySize(limitBreakConfig) - 1)
       => /\ variables'[limitBreakConfig.ultimateLimitVarId] = 0
          /\ \A a \in ConfiguredActors : Meter(a)' = Meter(a)]_vars

\* The actors a battle frame found healed, from the HP snapshot before and
\* after it, their total healing and their summed max HP.
HealedActors == {t \in DOMAIN preHP.actor : preHP'.actor[t] > preHP.actor[t]}

\* C17: a battle frame that evaluates the action of a Healer-mode actor a
\* (mode 3) which healed actors by h in total, their max HP summing to MaxH,
\* raises a's meter by floor(h * 16 / MaxH * m(a)), capped at 100: the
\* multiplier enters once.
C17_HealerGainMultipliedOnce ==
    [][(/\ lbLast'.hook = "onFrame"
        /\ wasInBattle'
        /\ monitoringDamage
        /\ nextIsActorAction
        /\ lastActionActor \in ConfiguredActors
        /\ getActorMode(variables, limitBreakConfig, lastActionActor) = 3
        /\ HealedActors # {})
       => LET h == SetSum([t \in HealedActors |-> preHP'.actor[t] - preHP.actor[t]],
                          HealedActors)
              MaxH == SetSum([t \in HealedActors |-> ActorMaxHpOf(t)], HealedActors)
              m2 == getEquipmentMultiplier(limitBreakConfig, equipment, lastActionActor)
          IN  Meter(lastActionActor)'
                  = Min(100, Meter(lastActionActor) + ((h * 16 * m2) \div (2 * MaxH)))]_vars

\* The damage a battle frame found on actor t, from the HP snapshot before and
\* after it.
DamageTaken(t) ==
    IF t \in DOMAIN preHP.actor /\ t \in DOMAIN preHP'.actor
    THEN Max(0, preHP.actor[t] - preHP'.actor[t]) ELSE 0

C19_SoundOnRisingEdge ==
    [][LET cfg == limitBreakConfig
           draw == lbLast'.hook = "onDrawBattleActionWindow"
           frame == lbLast'.hook = "onFrame"
           soundConfigured == cfg.playSound100Percent /\ cfg.sound100PercentFile # ""
           GaugeFill == Max(0, Min(100, variables[cfg.ultimateLimitVarId]))
       IN  /\ (draw /\ lbLast'.drawn) =>
                  /\ lbLast'.sound = (soundConfigured /\ GaugeFill = 100 /\ ~wasAt100Percent)
                  /\ wasAt100Percent' = (GaugeFill = 100)
           /\ (draw /\ ~lbLast'.drawn) =>
                  /\ ~lbLast'.sound
                  /\ wasAt100Percent' = wasAt100Percent
           /\ (wasAt100Percent /\ ~wasAt100Percent') =>
                  \/ draw /\ lbLast'.drawn /\ GaugeFill < 100
                  \/ frame /\ wasInBattle' # wasInBattle
           /\ (frame /\ wasInBattle /\ ~wasInBattle') => ~wasAt100Percent'
      ]_vars

\* A draw in battle has just played the sound.
C19_Witness ==
    /\ lbLast.hook = "onDrawBattleActionWindow"
    /\ lbLast.sound
    /\ wasAt100Percent
    /\ wasInBattle

\* C20: at a first-try pre-action hook for a configured actor whose first
\* command is the Limit command and whose pending action is a basic attack:
\* with the actor's meter >= 100 the action becomes a Skill whose id is the
\* content of the actor's skill variable when > 0 and the fallback skill id
\* otherwise, the actor's meter becomes 0 and the ultimate meter is the
\* recomputed one; with the meter < 100 the action and the meter are left
\* unchanged.
C20_LimitAttemptRewrite ==
    [][LET cfg == limitBreakConfig
           a == lbAction'.actorId
           ac == cfg.actorConfig[a]
           meter == variables[ac.limitVarId]
           skill == IF ac.limitSkillVarId > 0 /\ variables[ac.limitSkillVarId] > 0
                    THEN variables[ac.limitSkillVarId]
                    ELSE ac.defaultLimitSkillId
           u == cfg.ultimateLimitVarId
       IN  (/\ lbAction'.called
            /\ a \in DOMAIN cfg.actorConfig
            /\ lbAction'.firstCommand = cfg.limitCommandId
            /\ IsBasicAttack(lbAction'.given)) =>
               IF meter >= 100
               THEN /\ lbAction'.action.kind = "AK_SKILL"
                    /\ lbAction'.action.skillId = skill
                    /\ variables'[ac.limitVarId] = 0
                    /\ variables'[u] = updateUltimateLimitBar(variables', cfg, party,
                                                              overflowResult)[u]
               ELSE /\ lbAction'.action = lbAction'.given
                    /\ variables'[ac.limitVarId] = meter
      ]_vars

\* The last step was a pre-action hook in which the Ultimate attempt of the
\* acting actor succeeded: a basic attack became the actor's ultimate skill
\* with the ultimate meter at 100 or more.
UltimateSucceeds ==
    LET cfg == limitBreakConfig
        a == lbAction'.actorId
    IN  /\ lbAction'.called
        /\ IsBasicAttack(lbAction'.given)
        /\ variables[cfg.ultimateLimitVarId] >= 100
        /\ cfg.actorUltimateLimitSkillId[a] > 0
        /\ lbAction'.action.kind = "AK_SKILL"
        /\ lbAction'.action.skillId = cfg.actorUltimateLimitSkillId[a]

PreActionEffect ==
    /\ ~monitoringDamage'
    /\ nextIsActorAction' = ~lbAction'.isMonster
    /\ lastActionActor' = IF lbAction'.isMonster THEN 0 ELSE lbAction'.actorId
    /\ preHP' = [actor |-> lbAction'.hp.actor,
                 monster |-> IF lbAction'.isMonster THEN << >> ELSE lbAction'.hp.monster]

RelevantDelta(pre, hp, isActorAction) ==
    IF isActorAction
    THEN \/ \E m \in DOMAIN pre.monster : hp.monster[m] < pre.monster[m]
         \/ \E a \in DOMAIN pre.actor : hp.actor[a] > pre.actor[a]
    ELSE \E a \in DOMAIN pre.actor : hp.actor[a] < pre.actor[a]

\* C27: on a battle frame while monitoring, the HP snapshot is replaced by the
\* current HP exactly when a relevant delta is detected; on a frame with no
\* such delta the snapshot and every meter are unchanged (all variables, once
\* the battle has been entered).  After either frame the same HP reading
\* shows no delta any more, so no HP change is credited in two frames.
C27_SnapshotReplacedOnDelta ==
    [][(lbAction'.hook = "SCENE_BATTLE" /\ monitoringDamage) =>
           /\ IF RelevantDelta(preHP, lbAction'.hp, nextIsActorAction)
              THEN preHP' = [actor |-> lbAction'.hp.actor,
                             monster |-> IF nextIsActorAction THEN lbAction'.hp.monster
                                         ELSE << >>]
              ELSE /\ preHP' = preHP
                   /\ \A a \in LBActorIds :
                          variables'[LimitVarOf(a)] = variables[LimitVarOf(a)]
                   /\ wasInBattle => variables' = variables
           /\ ~RelevantDelta(preHP', lbAction'.hp, nextIsActorAction')]_vars

\* A battle frame during the monitoring of actor 1's action has seen the
\* monster's damage: the snapshot is now the frame's reading, with the monster
\* at 0, and actor 1's meter has gained.
C27_Witness ==
    /\ lbAction # NoRewrite
    /\ lbAction.hook = "SCENE_BATTLE"
    /\ monitoringDamage
    /\ nextIsActorAction
    /\ lastActionActor = 1
    /\ preHP = lbAction.hp
    /\ \E m \in LBMonsters : preHP.monster[m] = 0
    /\ variables[LimitVarOf(1)] > 0

\* The variables with every mode variable that is above 4 replaced by the
\* default mode of its actor's profile.
WithFallbackModes(vs, cfg) ==
    [v \in DOMAIN vs |->
        LET owners == {a \in DOMAIN cfg.actorConfig : cfg.actorConfig[a].modeVarId = v}
        IN  IF owners # {} /\ vs[v] >= 5
            THEN cfg.actorConfig[CHOOSE a \in owners : TRUE].defaultMode
            ELSE vs[v]]

\* C28: no hook and no frame increases the meter of an actor whose mode
\* variable is negative; on a battle frame the meters and the snapshot come
\* out as if every mode variable above 4 held its profile's default mode.
C28_ModeVariableOutOfRange ==
    [][LET cfg == limitBreakConfig
           asFallback == checkDamageAndApplyGain(WithFallbackModes(variables, cfg), cfg,
                                                 equipment, party, preHP, lbAction'.hp,
                                                 monitoringDamage, nextIsActorAction,
                                                 lastActionActor, overflowResult)
       IN  \A a \in DOMAIN cfg.actorConfig :
               LET meter == cfg.actorConfig[a].limitVarId
               IN  /\ variables[cfg.actorConfig[a].modeVarId] < 0 =>
                          variables'[meter] <= variables[meter]
                   /\ lbAction'.hook = "SCENE_BATTLE" =>
                          /\ variables'[meter] = asFallback.variables[meter]
                          /\ preHP' = asFallback.preHP]_vars

\* Actor 1's mode variable is 5 and its meter has gained from the damage it
\* dealt (default mode 1); actor 2's mode variable is negative and its meter
\* is still 0 on the frame that saw a monster knock actor 2 down.
C28_Witness ==
    /\ lbAction # NoRewrite
    /\ lbAction.hook = "SCENE_BATTLE"
    /\ monitoringDamage
    /\ ~nextIsActorAction
    /\ variables[ModeVarOf(1)] = 5
    /\ variables[LimitVarOf(1)] > 0
    /\ variables[ModeVarOf(2)] < 0
    /\ preHP.actor = lbAction.hp.actor
    /\ preHP.actor[2] = 0
    /\ variables[LimitVarOf(2)] = 0

\* C31: a Limit attempt happens only for an actor whose own first command
\* slot holds the Limit command id: at a first-try pre-action hook of a
\* configured actor with another first command, the pending basic attack is
\* not rewritten to the actor's limit skill and its full meter is not reset,
\* whatever window was drawn before.
C31_LimitOnlyForLimitCommand ==
    [][LET cfg == limitBreakConfig
           a == lbAction'.actorId
           meter == cfg.actorConfig[a].limitVarId
       IN  (/\ lbAction'.called
            /\ a \in DOMAIN cfg.actorConfig
            /\ lbAction'.firstCommand # cfg.limitCommandId
            /\ IsBasicAttack(lbAction'.given)) =>
               ~(/\ lbAction'.action.kind = "AK_SKILL"
                 /\ lbAction'.action.skillId = getActorLimitSkillId(variables, cfg, a)
                 /\ variables[meter] >= 100
                 /\ variables'[meter] = 0)
      ]_vars

\* C32: only current party members have their meter changed by observer
\* events: the meter of a configured actor who is not in the party, and whose
\* own HP stays as it was, is not raised by any frame, in particular not by a
\* monster's action against the party.
C32_OnlyPartyMembersGain ==
    [][\A a \in DOMAIN limitBreakConfig.actorConfig :
           (/\ \A i \in 0..3 : partyMember(party, i) # a
            /\ a \in DOMAIN preHP.actor
            /\ preHP'.actor[a] = preHP.actor[a]) =>
               variables'[limitBreakConfig.actorConfig[a].limitVarId]
                   <= variables[limitBreakConfig.actorConfig[a].limitVarId]]_vars

\* C33: a new-game event cancels a pending load-game reapplication: a frame
\* that directly follows onNewGame applies no patch and leaves the host bytes
\* and the shadows as onNewGame left them, whether or not onLoadGame came
\* before.
C33_NewGameCancelsReapplication ==
    [][(qpLast = "onNewGame" /\ qpLast' = "onFrame") =>
           /\ memory' = memory
           /\ originalMemoryValues' = originalMemoryValues
           /\ appliedLog' = << >>]_vars

\* C34: a BareHanded callback (onFrame, onSetVariable, the unequipBareHand
\* command) empties a weapon or shield slot only when the slot holds the
\* actor's bare-hand weapon, its fixed id or the current value of its
\* variable: a different weapon is never removed.
C34_OnlyBareHandRemoved ==
    [][bhLast' \in {"onFrame", "onSetVariable", "unequipbarehand"} =>
           \A a \in DOMAIN equipment : \A slot \in 1..2 :
               (equipment[a][slot] > 0 /\ equipment'[a][slot] = 0) =>
                   \/ IsFixedBareHand(actorWeaponMap, a, equipment[a][slot])
                   \/ IsVariableBareHand(variables, actorVariableMap, a, equipment[a][slot])]_vars

\* The pending action is an ordinary or a double attack.
AttackPending(action) ==
    action.kind = "AK_BASIC" /\ action.basicActionId \in {"BA_ATTACK", "BA_DOUBLE_ATTACK"}

\* C36: a pre-action hook changes nothing unless it is a first try for an
\* actor whose pending action is a basic or double attack: when firstTry is
\* false, the battler is a monster or the action is of another kind, neither
\* LimitBreak nor DirectSkills changes the action, and no variable (so no
\* meter) is changed.
C36_HookNeedsFirstTryAttack ==
    [][/\ (/\ lbAction' # lbAction
            /\ lbAction'.called
            /\ (\/ ~lbAction'.firstTry
                \/ lbAction'.isMonster
                \/ ~AttackPending(lbAction'.given))) =>
               (lbAction'.action = lbAction'.given /\ variables' = variables)
       /\ (/\ dsLast' # dsLast
            /\ dsLast'.called
            /\ (\/ ~dsLast'.firstTry
                \/ dsLast'.isMonster
                \/ ~AttackPending(dsLast'.before))) =>
               (dsLast'.after = dsLast'.before /\ variables' = variables)]_vars

\* Both modules have been called for the same pre-action hook.
HookDone == lbAction.called /\ dsLast.called

C36_Witness ==
    /\ HookDone
    /\ lbAction.firstTry /\ ~lbAction.isMonster
    /\ lbAction.given.kind = "AK_BASIC" /\ lbAction.given.basicActionId = "BA_DEFEND"
    /\ lbAction.firstCommand = limitBreakConfig.limitCommandId
    /\ lbAction.actorId \in DOMAIN limitBreakConfig.actorConfig
    /\ variables[limitBreakConfig.actorConfig[lbAction.actorId].limitVarId] >= 100
    /\ dsLast.actorId \in DOMAIN actorCommandMap
    /\ actorCommandMap[dsLast.actorId] \in DOMAIN commandToSkillMap

\* How many of Limit, Ultimate and DirectSkills rewrote the action of the hook.
HookRewriters ==
    (IF lbAction.limitRewrote THEN 1 ELSE 0)
    + (IF lbAction.ultimateRewrote THEN 1 ELSE 0)
    + (IF dsLast.after # dsLast.before THEN 1 ELSE 0)

\* C37: for either order in which the host calls LimitBreak and
\* DirectSkills for a pre-action hook, the action is rewritten by at most one
\* of Limit, Ultimate and DirectSkills: once one of them has made the action a
\* skill, the others leave it as it is and reset no meter.
C37_AtMostOneRewrite ==
    HookDone =>
        /\ HookRewriters <= 1
        /\ lbAction.limitReset => lbAction.limitRewrote
        /\ lbAction.ultimateReset => lbAction.ultimateRewrote
        /\ lbAction.order = 1 => dsLast.before = lbAction.action
        /\ lbAction.order = 2 => lbAction.given = dsLast.after

\* DirectSkills rewrote first, and LimitBreak then saw a Limit attempt of an
\* actor whose meter is full.
C37_Witness ==
    /\ HookDone
    /\ lbAction.order = 2
    /\ dsLast.after.kind = "AK_SKILL" /\ AttackPending(dsLast.before)
    /\ lbAction.firstCommand = limitBreakConfig.limitCommandId
    /\ lbAction.actorId \in DOMAIN limitBreakConfig.actorConfig
    /\ variables[limitBreakConfig.actorConfig[lbAction.actorId].limitVarId] >= 100

\* The bar layer of the gauge: whether the gauge is full, the frame list in
\* use and the frame shown.
BarFull == Max(0, Min(100, variables[limitBreakConfig.ultimateLimitVarId])) = 100

ActiveBarFrames ==
    IF BarFull THEN limitBreakConfig.animation.bar.filledFrames
    ELSE limitBreakConfig.animation.bar.unfilledFrames

AnimFrameIds == {0, 1, 2}

\* C38: while the fill state (full or not) no longer changes, the advances of
\* the bar layer go through the active frame list cyclically, so every entry
\* of the list is displayed again and again, also when the list names a frame
\* more than once (0,1,2,1).
C38_EveryEntryDisplayed ==
    \A full \in BOOLEAN, e \in AnimFrameIds :
        <>[](BarFull = full) =>
            []<>(\/ e \notin Range(ActiveBarFrames)
                 \/ limitBreakConfig.animation.bar.currentFrame = e)

\* The address test every write of length len is to pass.
WriteAllowed(address, len) == address # 0 /\ address < ADDRESS_LIMIT - len

\* C40: a patch write of length len (1 for 8bit, 4 for 32bit, half the
\* payload's length for hex) is performed only when the address is not 0 and
\* below 0xFFFFFFFF - len: while no mapping passes that test, no callback
\* changes a host byte or creates a shadow.
C40_WriteOnlyInsideLimit ==
    [][(\A i \in DOMAIN quickpatchMappings :
            ~WriteAllowed(quickpatchMappings[i].address, PatchSize(quickpatchMappings[i]))) =>
           (memory' = memory /\ DOMAIN originalMemoryValues' \subseteq DOMAIN originalMemoryValues)
      ]_vars

(***************************************************************************)
(* onStartup of the four modules                                           *)
(***************************************************************************)
\* isxdigit, and the value strtoul gives a hex digit.
XDigits == HexChars \o <<"a","b","c","d","e","f">>

IsXDigit(c) == \E i \in DOMAIN XDigits : XDigits[i] = c

XDigitVal(c) ==
    LET i == CHOOSE j \in DOMAIN XDigits : XDigits[j] = c IN IF i <= 16 THEN i - 1 ELSE i - 7

RECURSIVE ParseXDigits(_, _, _)
ParseXDigits(s, acc, n) ==
    IF s # << >> /\ IsXDigit(Head(s))
    THEN ParseXDigits(Tail(s), acc * 16 + XDigitVal(Head(s)), n + 1)
    ELSE [val |-> acc, count |-> n, rest |-> s]

HasPrefix(str, prefixes) == Len(str) >= 2 /\ SubSeq(str, 1, 2) \in prefixes

\* DynamicQuickPatchConfig::stringToInt: std::stoi, in base 16 after "0x".
QPStringToInt(str, defaultValue) ==
    IF HasPrefix(str, {<<"0","x">>})
    THEN ParseXDigits(SubSeq(str, 3, Len(str)), 0, 0).val
    ELSE StoiOr(str, defaultValue)

\* isValidHexString: hex digits only, and an even number of them.
isValidHexString(hexStr) ==
    (\A i \in DOMAIN hexStr : IsXDigit(hexStr[i])) /\ Len(hexStr) % 2 = 0

\* The text of a key, or the loader's default when the key is absent (<< >>).
KeyOr(text, defaultText) == IF text = << >> THEN defaultText ELSE text

\* The address of an entry: ok = FALSE where the loader rejects the entry.
QPParseAddress(addressStr) ==
    IF HasPrefix(addressStr, {<<"0","x">>, <<"0","X">>})
    THEN LET p == ParseXDigits(SubSeq(addressStr, 3, Len(addressStr)), 0, 0)
         IN  [ok |-> p.count > 0 /\ p.rest = << >>, val |-> p.val % 2^AddressBits]
    ELSE LET address == QPStringToInt(addressStr, 0) % 2^AddressBits
         IN  [ok |-> address # 0, val |-> address]

QPTypeOf(typeStr) ==
    CASE typeStr = <<"8","b","i","t">> -> "QPTYPE_8BIT"
      [] typeStr = <<"3","2","b","i","t">> -> "QPTYPE_32BIT"
      [] typeStr = <<"h","e","x">> -> "QPTYPE_HEX_RAW"
      [] OTHER -> "none"

\* One round of the loader's loop: the mappings with entry i appended, or as
\* they were when the entry is skipped.
QPLoadEntry(mappings, e, maxVariableId) ==
    LET varIdStr == KeyOr(e.variableId, <<"0">>)
        addressStr == KeyOr(e.address, <<"0">>)
        typeStr == e.type
        hexValueStr == e.hexValue
        onLoadGameStr == KeyOr(e.onLoadGame, <<"t","r","u","e">>)
        variableId == QPStringToInt(varIdStr, 0)
        address == QPParseAddress(addressStr)
        type == QPTypeOf(typeStr)
    IN  IF varIdStr = <<"0">> \/ addressStr = <<"0">> \/ typeStr = << >> THEN mappings
        ELSE IF variableId <= 0 \/ variableId > maxVariableId THEN mappings
        ELSE IF ~address.ok THEN mappings
        ELSE IF type = "none" THEN mappings
        ELSE IF type = "QPTYPE_HEX_RAW" /\ ~isValidHexString(hexValueStr) THEN mappings
        ELSE Append(mappings, [variableId |-> variableId, address |-> address.val,
                               type |-> type, hexValue |-> hexValueStr,
                               applyOnLoadGame |-> onLoadGameStr = <<"t","r","u","e">>])

RECURSIVE QPLoadEntries(_, _, _, _)
QPLoadEntries(mappings, ini, i, maxVariableId) ==
    IF \A k \in DOMAIN ini.entries : k < i THEN mappings
    ELSE QPLoadEntries(IF i \in DOMAIN ini.entries
                       THEN QPLoadEntry(mappings, ini.entries[i], maxVariableId)
                       ELSE mappings,
                       ini, i + 1, maxVariableId)

DEFAULT_MAX_VARIABLE_ID == 1000

\* The MaxVariableId the loader settles on: the key's value, or the default
\* when the key is absent, does not parse or is not positive.
QPMaxVariableId(ini) ==
    LET parsed == IF ini.maxVariableId = << >> THEN DEFAULT_MAX_VARIABLE_ID
                  ELSE QPStringToInt(ini.maxVariableId, DEFAULT_MAX_VARIABLE_ID)
    IN  IF parsed <= 0 THEN DEFAULT_MAX_VARIABLE_ID ELSE parsed

\* DynamicQuickPatchConfig::loadConfig: the mappings it leaves; it returns true.
QP_loadConfig(ini) == QPLoadEntries(<< >>, ini, 1, QPMaxVariableId(ini))

QPEntry(variableId, address, type, hexValue, onLoadGame) ==
    [variableId |-> variableId, address |-> address, type |-> type, hexValue |-> hexValue,
     onLoadGame |-> onLoadGame]

\* The [dynamic_quickpatch] sections onStartup is given: no entry; a valid
\* entry; an entry without an address; a hex entry with an odd payload next to
\* a valid hex entry; an unknown type and a variable id above MaxVariableId.
QPStartupInis ==
    {[maxVariableId |-> << >>, entries |-> EmptyMap],
     [maxVariableId |-> << >>,
      entries |-> (1 :> QPEntry(<<"1">>, <<"1">>, <<"8","b","i","t">>, << >>, << >>))],
     [maxVariableId |-> <<"x">>,
      entries |-> (1 :> QPEntry(<<"1">>, << >>, <<"3","2","b","i","t">>, << >>, << >>))],
     [maxVariableId |-> <<"0">>,
      entries |-> (1 :> QPEntry(<<"1">>, <<"0","x","2">>, <<"h","e","x">>, <<"E","B","C">>, << >>)
                   @@ 2 :> QPEntry(<<"1">>, <<"0","x","2">>, <<"h","e","x">>, <<"E","B">>,
                                   <<"f","a","l","s","e">>))],
     [maxVariableId |-> <<"1">>,
      entries |-> (1 :> QPEntry(<<"1">>, <<"2">>, <<"1","6","b","i","t">>, << >>, << >>)
                   @@ 2 :> QPEntry(<<"2">>, <<"2">>, <<"8","b","i","t">>, << >>, << >>))]}

\* onStartup of DynamicQuickPatch returns what loadConfig returns: true.
QP_onStartup(ini) ==
    /\ ~startup["dynamic_quickpatch"].called
    /\ quickpatchMappings' = QP_loadConfig(ini)
    /\ startup' = [startup EXCEPT !["dynamic_quickpatch"] = Started(TRUE)]
    /\ UNCHANGED <<memory, originalMemoryValues, gameJustLoaded, appliedLog, qpLast, variables,
                   dsVars, lbVars, bhVars>>

\* LimitBreakConfig::stringToInt.
stringToInt(str, defaultValue) == StoiOr(str, defaultValue)

\* The settings before LoadConfig: the initial values of the statics.
LBStatics == [LBConfig({}, FALSE, 0) EXCEPT !.limitCommandId = 0]

\* The [limit_break] sections onStartup is given: the text of LimitCommandId
\* (<< >> when the key is absent); the other settings are given as parsed.
LBStartupInis ==
    [limitCommandId : {<< >>, <<"1">>, <<"0">>, <<"x">>}, configured : {{}, 1..3},
     useFour : {FALSE}, ultimateVarId : {0, UltimateVar}]

\* LimitBreakConfig::LoadConfig: the settings it leaves and what it returns.
LB_LoadConfig(current, ini) ==
    LET limitCommandId == IF ini.limitCommandId = << >> THEN current.limitCommandId
                          ELSE stringToInt(ini.limitCommandId, 0)
    IN  [config |-> [LBConfig(ini.configured, ini.useFour, ini.ultimateVarId)
                         EXCEPT !.limitCommandId = limitCommandId],
         configValid |-> limitCommandId > 0]

\* onStartup of LimitBreak returns what LoadConfig returns.
LB_onStartup(ini) ==
    /\ ~startup["limit_break"].called
    /\ limitBreakConfig' = LB_LoadConfig(limitBreakConfig, ini).config
    /\ startup' = [startup EXCEPT
                      !["limit_break"] = Started(LB_LoadConfig(limitBreakConfig, ini).configValid)]
    /\ UNCHANGED <<equipment, party, limitCommandSelected, ultimateLimitCommandSelected, preHP,
                   nextIsActorAction, lastActionActor, monitoringDamage, wasInBattle,
                   wasAt100Percent, overflowResult, lbLast, lbAction, variables, qpVars, dsVars,
                   bhVars>>

\* The [direct_skills] sections of the startup runs.
DSStartupInis ==
    [value : [DSCommandIds -> {<< >>, <<"5">>, <<"v","x">>}], default : [DSCommandIds -> {<< >>}],
     limit : {<< >>, <<"x">>}, ult : {<< >>}]

\* The [bare_handed] sections of the startup runs.
BHStartupInis ==
    [maxActorId : {<< >>, <<"2">>, <<"x">>},
     weapon : {EmptyMap, (1 :> <<"1">>) @@ (3 :> <<"2">>), (1 :> <<"x">>) @@ (2 :> <<"0">>)},
     variable : {EmptyMap, (2 :> <<"1">>) @@ (3 :> <<"-","1">>)}]

(***************************************************************************)
(* Startup and BareHanded: properties                                      *)
(***************************************************************************)
\* C29: whatever the configuration, every module's onStartup tells the host
\* "ok": no module that has been started has returned false.
C29_StartupAlwaysOk ==
    \A m \in Modules : startup[m].called => startup[m].ok

\* The equipment and the flag after the updateBareHand command, from the
\* current state.
UpdatedOnce ==
    updateBareHand(equipment, variables, party, actorWeaponMap, actorVariableMap)

\* C30: updateBareHand is idempotent: from every party, equipment and variable
\* state, executing the command a second time leaves the weapon and shield
\* slots of every actor and the weaponsEquipped flag as the first execution
\* left them.
C30_UpdateBareHandIdempotent ==
    LET twice == updateBareHand(UpdatedOnce.equipment, variables, party, actorWeaponMap,
                                actorVariableMap)
    IN  /\ \A a \in DOMAIN equipment :
               /\ twice.equipment[a][1] = UpdatedOnce.equipment[a][1]
               /\ twice.equipment[a][2] = UpdatedOnce.equipment[a][2]
        /\ twice.weaponsEquipped = UpdatedOnce.weaponsEquipped

\* The command has just run on a party of three: the first member holds its
\* fixed weapon, the second wields two weapons and keeps its empty weapon slot
\* next to the weapon in its shield slot, the third holds the weapon its
\* variable names; running the command again changes nothing.
C30_Witness ==
    /\ bhLast = "updatebarehand"
    /\ weaponsEquipped
    /\ Len(party) = 3
    /\ \E a \in DOMAIN actorWeaponMap :
           a = party[1] /\ equipment[a][1] = actorWeaponMap[a]
    /\ \E a \in BHTwoWeapons :
           a = party[2] /\ equipment[a][1] = 0 /\ equipment[a][2] > 0
    /\ \E a \in DOMAIN actorVariableMap :
           /\ a = party[3] /\ a \notin DOMAIN actorWeaponMap
           /\ equipment[a][1] = variables[actorVariableMap[a]]
    /\ UpdatedOnce.equipment = equipment

\* The sections the loader is tried on: entry 1 takes every combination of
\* the texts below (an absent key is << >>), alone or followed by a valid
\* entry 2.
QPLoadVarIds == {<< >>, <<"0">>, <<"1">>, <<"2">>, <<"0","x","1">>}

QPLoadAddresses == {<< >>, <<"0">>, <<"1">>, <<"0","x","0">>, <<"0","X","2">>, <<"0","x","G">>}

QPLoadTypes ==
    {<< >>, <<"8","b","i","t">>, <<"3","2","b","i","t">>, <<"h","e","x">>, <<"1","6","b","i","t">>}

QPLoadPayloads == {<< >>, <<"E","B">>, <<"E","B","C">>, <<"G","G">>}

QPLoadEntriesTried ==
    {QPEntry(v, a, t, h, l) :
        v \in QPLoadVarIds, a \in QPLoadAddresses, t \in QPLoadTypes, h \in QPLoadPayloads,
        l \in {<< >>, <<"f","a","l","s","e">>}}

QPValidEntry == QPEntry(<<"1">>, <<"3">>, <<"3","2","b","i","t">>, << >>, <<"f","a","l","s","e">>)

QPLoadInis ==
    {[maxVariableId |-> m, entries |-> (1 :> e)] :
        m \in {<< >>, <<"1">>}, e \in QPLoadEntriesTried}
    \cup {[maxVariableId |-> << >>, entries |-> (1 :> e) @@ (2 :> QPValidEntry)] :
              e \in QPLoadEntriesTried}

\* What the configuration reference asks of an entry: a variable id in
\* [1, MaxVariableId], a well-formed address other than zero, a known type
\* and, for hex, a payload of hex digits of even length.
QPShouldAccept(e, maxVariableId) ==
    LET variableId == QPStringToInt(KeyOr(e.variableId, <<"0">>), 0)
        address == QPParseAddress(KeyOr(e.address, <<"0">>))
        type == QPTypeOf(e.type)
    IN  /\ variableId >= 1 /\ variableId <= maxVariableId
        /\ address.ok /\ address.val # 0
        /\ type # "none"
        /\ type = "QPTYPE_HEX_RAW" => isValidHexString(e.hexValue)

\* C35: the loader accepts an entry if and only if its variable id is in
\* [1, MaxVariableId], its address is not zero, its type is 8bit, 32bit or hex
\* and a hex payload is valid: after loadConfig there is one mapping for each
\* such entry of the section and none for any other, and no mapping has the
\* address zero.
C35_LoaderAcceptsIff ==
    [][\A ini \in QPLoadInis :
           QP_onStartup(ini) =>
               /\ Len(quickpatchMappings') =
                      Cardinality({k \in DOMAIN ini.entries :
                                      QPShouldAccept(ini.entries[k], QPMaxVariableId(ini))})
               /\ \A i \in DOMAIN quickpatchMappings' : quickpatchMappings'[i].address # 0]_vars

\* C39: on every Map frame each party member who is unarmed and has a fixed
\* bare-hand weapon (and no weapon variable) holds that weapon when the frame
\* is over, whether it was unarmed from the start or became so, or joined,
\* after an earlier Map frame.
C39_MapFrameEquipsUnarmed ==
    [][BH_onFrame("SCENE_MAP") =>
           \A a \in DOMAIN actorWeaponMap :
               (/\ InParty(party, a)
                /\ a \notin DOMAIN actorVariableMap
                /\ hasNoWeapons(equipment, a)) =>
                   equipment'[a][1] = actorWeaponMap[a]]_vars

(***************************************************************************)
(* Specifications: one per plugin                                          *)
(***************************************************************************)
\* The state of the other plugins while one plugin is observed.
QPIdle ==
    /\ memory = HostImage
    /\ originalMemoryValues = NoShadow
    /\ gameJustLoaded = FALSE
    /\ quickpatchMappings = << >>
    /\ appliedLog = << >>
    /\ qpLast = "onStartup"

InitDSConfig ==
    /\ BHIdle
    /\ DSConstructed
    /\ QPIdle
    /\ LBIdle
    /\ variables = [v \in DSVarIds |-> 0]
    /\ startup = StartupOf(dsStarted)

NextDSConfig == \E ini \in DSInis : DS_onStartup(ini)

SpecDSConfig == InitDSConfig /\ [][NextDSConfig]_vars

InitDS ==
    /\ BHIdle
    /\ dsIni \in DSBattleInis
    /\ \E r \in {LoadConfig(dsIni)} :
           /\ commandToSkillMap = r.cmd
           /\ defaultSkillMap = r.def
           /\ limitBreakCommandId = r.limit
           /\ limitBreakUltimateCommandId = r.ult
    /\ actorCommandMap = EmptyMap
    /\ dsStarted = TRUE
    /\ dsLast = NoCall
    /\ QPIdle
    /\ LBIdle
    /\ variables = [v \in DSVarIds |-> 0]
    /\ startup = StartupOf(dsStarted)

NextDS ==
    \/ \E scene \in {"SCENE_MAP", "SCENE_BATTLE"}, heroKind \in {"none", "monster", "actor"},
          actorId \in DSActors, selection \in (-1)..4 :
              DS_onFrame(scene, heroKind, actorId, selection) /\ dsLast' = NoCall
    \/ \E isMonster \in BOOLEAN, actorId \in DSActors, firstTry \in BOOLEAN,
          action \in DSEngineActions, skillTarget \in SkillTargets :
              DS_onDoBattlerAction(isMonster, actorId, firstTry, action, skillTarget)
    \/ \E isMonster \in BOOLEAN, actorId \in DSActors, success \in BOOLEAN :
              DS_onBattlerActionDone(isMonster, actorId, success)
    \/ \E id \in DSVarIds, value \in DSVarValues : DS_HostSetsVariable(id, value)

SpecDS == InitDS /\ [][NextDS]_vars

InitQP ==
    /\ BHIdle
    /\ quickpatchMappings \in SeqsUpTo(MappingRecords, MaxMappings)
    /\ variables = [v \in QPVarIds |-> 0]
    /\ memory = HostImage
    /\ originalMemoryValues = NoShadow
    /\ gameJustLoaded = FALSE
    /\ appliedLog = << >>
    /\ qpLast = "onStartup"
    /\ DSConstructed
    /\ LBIdle
    /\ startup = StartupOf(dsStarted)

NextQP ==
    \/ \E id \in QPVarIds, value \in QPValues : QP_onSetVariable(id, value)
    \/ \E saved \in [QPVarIds -> QPValues] : QP_onLoadGame(saved)
    \/ \E scene \in {"SCENE_MAP", "SCENE_BATTLE"} : QP_onFrame(scene)
    \/ QP_onNewGame

SpecQP == InitQP /\ [][NextQP]_vars

\* Limit-Break in and out of battle.  Actor 1 carries the mode and the item
\* under study; the other configured actors have gains switched off (mode -1).
\* A profile is a mode and the item actor 1 has equipped: every mode with the
\* +1.0 item, and Stoic with no item, the -2.0 item and the +16383.0 item.
LBProfiles ==
    {<<mode, 1>> : mode \in (-1)..4} \cup {<<0, 0>>, <<0, 2>>, <<0, 3>>}

\* The meters at the start: all empty or all full.
LBInitMeters == {0, 100}

InitLB ==
    /\ BHIdle
    /\ LBConstructed
    /\ limitBreakConfig = LBConfig(1..3, FALSE, UltimateVar)
    /\ party \in LBParties
    /\ \E profile \in LBProfiles, m \in LBInitMeters :
           /\ equipment = [a \in LBActorIds |->
                              IF a = 1 THEN <<profile[2], 0, 0, 0, 0>> ELSE NoEquipment]
           /\ overflowResult \in (IF profile[2] = 3 THEN UBOutcomes ELSE {INT_MIN})
           /\ variables = [v \in LBVarIds |->
                               IF v \in 1..3 THEN m
                               ELSE IF v = ModeVarOf(1) THEN profile[1]
                               ELSE IF v \in {ModeVarOf(a) : a \in LBActorIds} THEN -1
                               ELSE 0]
    /\ QPIdle
    /\ DSConstructed
    /\ startup = StartupOf(dsStarted)

NextLB ==
    \/ \E selection \in 0..1, selActive \in BOOLEAN, firstCommand \in LBFirstCommands :
           LB_onDrawBattleStatusWindow(0, selection, selActive, FALSE, TRUE, firstCommand)
    \/ \E firstTry \in BOOLEAN, hp \in LBHpReadings :
           /\ LB_onDoBattlerAction(TRUE, 1, firstTry, EngineAction("AK_BASIC", "BA_ATTACK", 0),
                                   3, hp)
           /\ lbAction' = NoRewrite
    \/ \E action \in LBActions, firstCommand \in LBFirstCommands, hp \in LBHpReadings :
           /\ LB_onDoBattlerAction(FALSE, 1, TRUE, action, firstCommand, hp)
           /\ lbAction' = NoRewrite
    \/ \E isMonster \in BOOLEAN, success \in BOOLEAN :
           LB_onBattlerActionDone(isMonster, 1, success) /\ lbAction' = NoRewrite
    \/ \E scene \in LBScenes, hp \in LBHpReadings :
           LB_onFrame(scene, hp) /\ lbAction' = NoRewrite
    \/ \E newParty \in LBParties : LB_HostChangesParty(newParty)

SpecLB == InitLB /\ [][NextLB]_vars

\* The recomputation of the ultimate meter as a function of party, settings
\* and meters.
UltMeters == {0, 99, 100}

UltParties == {<<1, 2>>, <<1, 2, 3>>, <<3, 1, 2>>, <<1, 2, 3, 4>>, <<4, 3, 2, 1>>, <<2, 3, 4>>}

UltConfigured == {1..4, 1..3, {1, 2, 4}, {1, 2}}

InitUlt ==
    /\ BHIdle
    /\ LBConstructed
    /\ limitBreakConfig \in {LBConfig(c, f, v) :
                                c \in UltConfigured, f \in BOOLEAN, v \in {UltimateVar, 0}}
    /\ equipment = [a \in LBActorIds |-> NoEquipment]
    /\ overflowResult = INT_MIN
    /\ party \in UltParties
    /\ \E m \in [1..4 -> UltMeters], u \in {0, 77} :
           variables = [v \in LBVarIds |->
                           IF v \in 1..4 THEN m[v] ELSE IF v = UltimateVar THEN u ELSE 0]
    /\ QPIdle
    /\ DSConstructed
    /\ startup = StartupOf(dsStarted)

NextUlt == LB_updateUltimateLimitBar

SpecUlt == InitUlt /\ [][NextUlt]_vars


\* DynamicQuickPatch with three mappings on variable 1: two RawBytes mappings
\* and one I8 mapping, in any order, at addresses that may or may not overlap.
ThreeMappings ==
    LET addrs == {1, 2, 4}
        raw == [variableId : {1}, address : addrs, type : {"QPTYPE_HEX_RAW"},
                hexValue : HexPayloads, applyOnLoadGame : {TRUE}]
        int8 == [variableId : {1}, address : addrs, type : {"QPTYPE_8BIT"},
                 hexValue : {<< >>}, applyOnLoadGame : {TRUE}]
    IN  {m \in [1..3 -> raw \cup int8] :
            Cardinality({i \in 1..3 : m[i].type = "QPTYPE_8BIT"}) = 1}

InitQP3 ==
    /\ BHIdle
    /\ quickpatchMappings \in ThreeMappings
    /\ variables = [v \in QPVarIds |-> 0]
    /\ memory = HostImage
    /\ originalMemoryValues = NoShadow
    /\ gameJustLoaded = FALSE
    /\ appliedLog = << >>
    /\ qpLast = "onStartup"
    /\ DSConstructed
    /\ LBIdle
    /\ startup = StartupOf(dsStarted)

SpecQP3 == InitQP3 /\ [][NextQP]_vars


\* Limit-Break, the evaluation of one monster action: the state after
\* onDoBattlerAction(monster) at full HP and onBattlerActionDone(success) in a
\* running battle, then one battle frame with the actors' HP readings.
HitModes == [1..3 -> {0, 2, 4}]

HitMeters == {0, 96}

HitReadings ==
    {[FullHP EXCEPT !.actor = [a \in LBActorIds |-> IF a \in 1..3 THEN h[a] ELSE ActorMaxHp]] :
        h \in [1..3 -> {ActorMaxHp, ActorMaxHp - 1, ActorMaxHp - 2}]}

InitHit ==
    /\ BHIdle
    /\ limitBreakConfig = LBConfig(1..3, FALSE, UltimateVar)
    /\ party \in LBParties
    /\ equipment \in {[a \in LBActorIds |-> IF a = 1 THEN <<item, 0, 0, 0, 0>> ELSE NoEquipment] :
                          item \in {0, 1}}
    /\ overflowResult = INT_MIN
    /\ \E modes \in HitModes, m \in HitMeters :
           variables = updateUltimateLimitBar(
                           [v \in LBVarIds |->
                               IF v \in 1..3 THEN m
                               ELSE IF v \in {ModeVarOf(a) : a \in 1..3}
                                    THEN modes[v - NumActors]
                               ELSE IF v = ModeVarOf(4) THEN -1
                               ELSE 0],
                           limitBreakConfig, party, overflowResult)
    /\ limitCommandSelected = FALSE
    /\ ultimateLimitCommandSelected = FALSE
    /\ preHP = [actor |-> FullHP.actor, monster |-> << >>]
    /\ nextIsActorAction = FALSE
    /\ lastActionActor = 0
    /\ monitoringDamage = TRUE
    /\ wasInBattle = TRUE
    /\ wasAt100Percent = FALSE
    /\ lbLast = LBLast("callback", -1)
    /\ lbAction = NoRewrite
    /\ QPIdle
    /\ DSConstructed
    /\ startup = StartupOf(dsStarted)

NextHit ==
    \E hp \in HitReadings :
        /\ lbLast.hook = "callback"
        /\ LB_onFrame("SCENE_BATTLE", hp)
        /\ lbAction' = NoRewrite

SpecHit == InitHit /\ [][NextHit]_vars

\* The gauge in and out of battle: the sound switched on or off, with or
\* without a file, with or without a visibility switch, while the game moves
\* the ultimate meter.
InitDraw ==
    /\ BHIdle
    /\ LBConstructed
    /\ \E p \in BOOLEAN, f \in {"flash1", ""}, s \in {0, 1} :
           limitBreakConfig = [LBConfig(1..3, FALSE, UltimateVar) EXCEPT
                                   !.playSound100Percent = p,
                                   !.sound100PercentFile = f,
                                   !.ultimateBarSwitchId = s]
    /\ equipment = [a \in LBActorIds |-> NoEquipment]
    /\ overflowResult = INT_MIN
    /\ party \in LBParties
    /\ \E m \in {0, 100} :
           variables = [v \in LBVarIds |-> IF v \in 1..3 THEN m ELSE 0]
    /\ QPIdle
    /\ DSConstructed
    /\ startup = StartupOf(dsStarted)

NextDraw ==
    \/ \E winParty \in BOOLEAN, switchValue \in BOOLEAN, barImage \in BOOLEAN :
           LB_onDrawBattleActionWindow(winParty, switchValue, barImage)
    \/ \E scene \in LBScenes : LB_onFrame(scene, FullHP) /\ lbAction' = NoRewrite
    \/ \E value \in {-5, 99, 100, 150} : LB_HostSetsVariable(UltimateVar, value)

SpecDraw == InitDraw /\ [][NextDraw]_vars

\* Actor 1 and actor 2 act in battle, with the Limit or the Ultimate command
\* in the first slot, while the command window is drawn for any battle
\* position.  Actor 1 is in the third position of a party of three or in the
\* fourth of a party of four, and its limit skill comes from a variable or
\* from the fallback.
InitLimit ==
    /\ BHIdle
    /\ LBConstructed
    /\ \E useFour \in BOOLEAN, skillVarId \in {0, SkillVar} :
           limitBreakConfig = [LBConfig(1..4, useFour, UltimateVar) EXCEPT
                                   !.actorConfig[1].limitSkillVarId = skillVarId]
    /\ equipment = [a \in LBActorIds |-> NoEquipment]
    /\ overflowResult = INT_MIN
    /\ party \in {<<2, 3, 1>>, <<2, 3, 4, 1>>}
    /\ \E own \in {0, 99, 100, 150}, others \in {0, 100}, skillId \in {-1, 0, 7} :
           variables = [v \in LBVarIds |->
                           IF v = LimitVarOf(1) THEN own
                           ELSE IF v \in 2..4 THEN others
                           ELSE IF v = SkillVar THEN skillId
                           ELSE 0]
    /\ QPIdle
    /\ DSConstructed
    /\ startup = StartupOf(dsStarted)

NextLimit ==
    \/ \E scene \in LBScenes : LB_onFrame(scene, FullHP) /\ lbAction' = NoRewrite
    \/ \E x \in 0..3, selection \in 0..1, firstCommand \in LBFirstCommands :
           /\ wasInBattle
           /\ LB_onDrawBattleStatusWindow(x, selection, TRUE, FALSE, TRUE, firstCommand)
    \/ \E actorId \in {1, 2}, action \in LBActions, firstCommand \in LBFirstCommands :
           /\ wasInBattle
           /\ LB_onDoBattlerAction(FALSE, actorId, TRUE, action, firstCommand, FullHP)
           /\ lbAction' = ObservedRewrite(FALSE, actorId, TRUE, action, firstCommand)
    \/ \E actorId \in {1, 2}, success \in BOOLEAN :
           /\ wasInBattle
           /\ LB_onBattlerActionDone(FALSE, actorId, success)
           /\ lbAction' = NoRewrite

SpecLimit == InitLimit /\ [][NextLimit]_vars

\* The selection tracker under observation: two actors highlight commands,
\* and the frames' inputs are kept in dsLast.
NextSel ==
    \/ \E scene \in {"SCENE_MAP", "SCENE_BATTLE"}, heroKind \in {"none", "monster", "actor"},
          actorId \in {1, 2}, selection \in (-1)..4 :
              /\ DS_onFrame(scene, heroKind, actorId, selection)
              /\ dsLast' = [NoCall EXCEPT !.frame = [scene |-> scene, heroKind |-> heroKind,
                                                     actorId |-> actorId,
                                                     selection |-> selection]]
    \/ \E isMonster \in BOOLEAN, actorId \in {1, 2}, firstTry \in BOOLEAN :
              DS_onDoBattlerAction(isMonster, actorId, firstTry,
                                   EngineAction("AK_BASIC", "BA_ATTACK", 0), "SKILL_TARGET_ENEMY")
    \/ \E isMonster \in BOOLEAN, actorId \in {1, 2}, success \in BOOLEAN :
              DS_onBattlerActionDone(isMonster, actorId, success)
    \/ DS_HostStartsNewGame

SpecSel == InitDS /\ [][NextSel]_vars

\* The HP observer under observation: every call of the three hooks is kept
\* in lbAction with its inputs.  Actors 1 and 2 have a mode variable that is
\* negative, a mode, or out of range with a fallback mode.  The host retries
\* a pre-action hook (firstTry = FALSE) only for the battler whose first try
\* came last and whose action has not succeeded yet.
InitObs ==
    /\ BHIdle
    /\ LBConstructed
    /\ limitBreakConfig = [LBConfig(1..3, FALSE, UltimateVar) EXCEPT
                               !.actorConfig[1].defaultMode = 1]
    /\ equipment = [a \in LBActorIds |-> NoEquipment]
    /\ overflowResult = INT_MIN
    /\ party = <<1, 2, 3>>
    /\ \E modes \in {<<-1, 0>>, <<1, -3>>, <<5, 7>>, <<5, -3>>, <<3, 0>>} :
           variables = [v \in LBVarIds |->
                           IF v = ModeVarOf(1) THEN modes[1]
                           ELSE IF v = ModeVarOf(2) THEN modes[2]
                           ELSE IF v \in {ModeVarOf(a) : a \in LBActorIds} THEN -1
                           ELSE 0]
    /\ QPIdle
    /\ DSConstructed
    /\ startup = StartupOf(dsStarted)

NextObs ==
    \/ \E isMonster \in BOOLEAN, firstTry \in BOOLEAN, hp \in LBHpReadings :
           /\ firstTry \/ (/\ wasInBattle /\ ~monitoringDamage /\ preHP # NoHP
                            /\ nextIsActorAction = ~isMonster)
           /\ LB_onDoBattlerAction(isMonster, 1, firstTry,
                                   EngineAction("AK_BASIC", "BA_ATTACK", 0), 3, hp)
           /\ lbAction' = [called |-> FALSE, hook |-> "onDoBattlerAction",
                            isMonster |-> isMonster, actorId |-> 1, flag |-> firstTry,
                            hp |-> hp]
    \/ \E isMonster \in BOOLEAN, success \in BOOLEAN :
           /\ LB_onBattlerActionDone(isMonster, 1, success)
           /\ lbAction' = [called |-> FALSE, hook |-> "onBattlerActionDone",
                            isMonster |-> isMonster, actorId |-> 1, flag |-> success,
                            hp |-> NoHP]
    \/ \E scene \in LBScenes, hp \in LBHpReadings :
           /\ LB_onFrame(scene, hp)
           /\ lbAction' = [called |-> FALSE, hook |-> scene,
                            isMonster |-> FALSE, actorId |-> 0, flag |-> FALSE, hp |-> hp]

SpecObs == InitObs /\ [][NextObs]_vars

\* The four modules are started, in any order, each on one of its sections.
InitStartup ==
    /\ QPIdle
    /\ DSConstructed
    /\ LBConstructed
    /\ limitBreakConfig = LBStatics
    /\ equipment = [a \in LBActorIds |-> NoEquipment]
    /\ party = << >>
    /\ overflowResult = INT_MIN
    /\ BHIdle
    /\ startup = [m \in Modules |-> NotStarted]
    /\ variables = [v \in DSVarIds |-> 0]

NextStartup ==
    \/ \E ini \in QPStartupInis : QP_onStartup(ini)
    \/ \E ini \in DSStartupInis : DS_onStartup(ini)
    \/ \E ini \in LBStartupInis : LB_onStartup(ini)
    \/ \E ini \in BHStartupInis : BH_onStartup(ini)

SpecStartup == InitStartup /\ [][NextStartup]_vars

\* The loader of DynamicQuickPatch on its own, given one section.
NextLoad == \E ini \in QPLoadInis : QP_onStartup(ini)

SpecLoad == InitStartup /\ [][NextLoad]_vars

\* One pre-action hook that the host hands to both modules, in either order.
\* Before it the status windows and the frames set the flags and the stored
\* selection; the module called second is given the action the first left.
HookInis ==
    {[value |-> [c \in DSCommandIds |-> <<"5">>], default |-> [c \in DSCommandIds |-> << >>],
      limit |-> << >>, ult |-> << >>],
     [value |-> [c \in DSCommandIds |-> IF c = 1 THEN <<"v","3">> ELSE << >>],
      default |-> [c \in DSCommandIds |-> <<"9">>], limit |-> << >>, ult |-> << >>]}

HookActions ==
    {EngineAction("AK_BASIC", "BA_ATTACK", 0), EngineAction("AK_BASIC", "BA_DOUBLE_ATTACK", 0),
     EngineAction("AK_BASIC", "BA_DEFEND", 0), EngineAction("AK_SKILL", "BA_ATTACK", 7)}

InitHook ==
    /\ BHIdle
    /\ LBConstructed
    /\ limitBreakConfig = LBConfig(1..3, FALSE, UltimateVar)
    /\ equipment = [a \in LBActorIds |-> NoEquipment]
    /\ overflowResult = INT_MIN
    /\ party = <<2, 3, 1>>
    /\ \E own \in {0, 100}, ultimate \in {0, 100} :
           variables = [v \in LBVarIds |->
                           IF v = LimitVarOf(1) THEN own
                           ELSE IF v = UltimateVar THEN ultimate
                           ELSE 0]
    /\ QPIdle
    /\ dsIni \in HookInis
    /\ \E r \in {LoadConfig(dsIni)} :
           /\ commandToSkillMap = r.cmd
           /\ defaultSkillMap = r.def
           /\ limitBreakCommandId = r.limit
           /\ limitBreakUltimateCommandId = r.ult
    /\ actorCommandMap = EmptyMap
    /\ dsStarted = TRUE
    /\ dsLast = NoCall
    /\ startup = StartupOf(dsStarted)

NextHook ==
    \/ \E scene \in LBScenes :
           /\ ~lbAction.called /\ ~dsLast.called
           /\ LB_onFrame(scene, FullHP) /\ lbAction' = NoRewrite
    \/ \E selection \in 0..1 :
           /\ ~lbAction.called /\ ~dsLast.called
           /\ DS_onFrame("SCENE_BATTLE", "actor", 1, selection) /\ dsLast' = NoCall
    \/ \E firstCommand \in LBFirstCommands :
           /\ ~lbAction.called /\ ~dsLast.called /\ wasInBattle
           /\ LB_onDrawBattleStatusWindow(0, 0, TRUE, FALSE, TRUE, firstCommand)
    \/ \E isMonster \in BOOLEAN, firstTry \in BOOLEAN, action \in HookActions,
          firstCommand \in LBFirstCommands :
           /\ ~lbAction.called /\ ~dsLast.called /\ wasInBattle
           /\ LB_onDoBattlerAction(isMonster, 1, firstTry, action, firstCommand, FullHP)
           /\ lbAction' = HookRecord(1, isMonster, 1, firstTry, action, firstCommand)
    \/ /\ lbAction.called /\ lbAction.order = 1 /\ ~dsLast.called
       /\ DS_onDoBattlerAction(lbAction.isMonster, lbAction.actorId, lbAction.firstTry,
                               lbAction.action, "SKILL_TARGET_SELF")
    \/ \E isMonster \in BOOLEAN, firstTry \in BOOLEAN, action \in HookActions :
           /\ ~lbAction.called /\ ~dsLast.called /\ wasInBattle
           /\ DS_onDoBattlerAction(isMonster, 1, firstTry, action, "SKILL_TARGET_SELF")
    \/ \E firstCommand \in LBFirstCommands :
           /\ ~lbAction.called /\ dsLast.called
           /\ LB_onDoBattlerAction(dsLast.isMonster, dsLast.actorId, dsLast.firstTry,
                                   dsLast.after, firstCommand, FullHP)
           /\ lbAction' = HookRecord(2, dsLast.isMonster, dsLast.actorId, dsLast.firstTry,
                                     dsLast.after, firstCommand)

SpecHook == InitHook /\ [][NextHook]_vars

\* The gauge drawn in battle, its bar animated over a picture of three frames
\* and its background over one of two; the host's events fill and empty the
\* ultimate meter.
AnimBarInis ==
    [useAnimation : {TRUE}, frameCount : {3}, animationSpeed : {1, 2},
     unfilledFrames : {<<"0",",","1",",","2",",","1">>, <<"0",",","1",",","2">>, << >>,
                       <<"2",",","x","1",",",",","5">>},
     filledFrames : {<< >>, <<"2",",","1">>}]

AnimBgIni ==
    [useAnimation |-> TRUE, frameCount |-> 2, animationSpeed |-> 0, unfilledFrames |-> << >>,
     filledFrames |-> << >>]

InitAnim ==
    /\ BHIdle
    /\ LBConstructed
    /\ \E ini \in AnimBarInis :
           limitBreakConfig =
               [LBConfig(1..3, FALSE, UltimateVar) EXCEPT
                   !.animation = [bg |-> [LoadAnimation(AnimBgIni) EXCEPT !.image = TRUE],
                                  bar |-> LoadAnimation(ini),
                                  fg |-> NoAnimation]]
    /\ equipment = [a \in LBActorIds |-> NoEquipment]
    /\ overflowResult = INT_MIN
    /\ party = <<1, 2, 3>>
    /\ variables = [v \in LBVarIds |-> 0]
    /\ QPIdle
    /\ DSConstructed
    /\ startup = StartupOf(dsStarted)

NextAnim ==
    \/ \E winParty \in BOOLEAN, barImage \in BOOLEAN :
           LB_onDrawBattleActionWindow(winParty, TRUE, barImage)
    \/ \E value \in {0, 100} : LB_HostSetsVariable(UltimateVar, value)

SpecAnim == InitAnim /\ [][NextAnim]_vars

\* In battle the host draws the action window on every frame, so a complete
\* draw cannot stay possible for ever without being taken.
FairAnim == SpecAnim /\ WF_vars(LB_onDrawBattleActionWindow(TRUE, TRUE, TRUE))

\* DynamicQuickPatch with one mapping at the edges of the address space:
\* address 0, address 1 and the addresses just below 0xFFFFFFFF.
EdgeAddrs == {0, 1} \cup ((ADDRESS_LIMIT - SIZEOF_INT - 2)..ADDRESS_LIMIT)

EdgeImage ==
    [a \in (0..(1 + SIZEOF_INT)) \cup ((ADDRESS_LIMIT - 2 * SIZEOF_INT)..ADDRESS_LIMIT) |->
        144 + (a % 7)]

EdgeMappings ==
    [variableId : {1}, address : EdgeAddrs, type : {"QPTYPE_8BIT", "QPTYPE_32BIT"},
     hexValue : {<< >>}, applyOnLoadGame : {TRUE}]
    \cup
    [variableId : {1}, address : EdgeAddrs, type : {"QPTYPE_HEX_RAW"},
     hexValue : HexPayloads, applyOnLoadGame : {TRUE}]

InitEdge ==
    /\ BHIdle
    /\ \E m \in EdgeMappings : quickpatchMappings = <<m>>
    /\ variables = [v \in QPVarIds |-> 0]
    /\ memory = EdgeImage
    /\ originalMemoryValues = NoShadow
    /\ gameJustLoaded = FALSE
    /\ appliedLog = << >>
    /\ qpLast = "onStartup"
    /\ DSConstructed
    /\ LBIdle
    /\ startup = StartupOf(dsStarted)

SpecEdge == InitEdge /\ [][NextQP]_vars

\* BareHanded at play.  Actor 1 has a fixed bare-hand weapon, actor 2 wields
\* two weapons, actor 3 has a variable-based weapon; in the second section
\* actor 2 has a variable-based weapon and actor 3 a fixed one as well.
BHBattleInis ==
    {[maxActorId |-> << >>, weapon |-> (1 :> <<"1">>), variable |-> (3 :> <<"1">>)],
     [maxActorId |-> <<"3">>, weapon |-> (1 :> <<"1">>) @@ (3 :> <<"2">>),
      variable |-> (2 :> <<"1">>) @@ (3 :> <<"1">>)]}

BHParties == {<<1, 2, 3>>, <<3, 1>>}

InitBH ==
    /\ \E ini \in BHBattleInis :
           /\ actorWeaponMap = BH_LoadConfig(ini).weapon
           /\ actorVariableMap = BH_LoadConfig(ini).variable
    /\ weaponsEquipped = FALSE
    /\ bhLast = "onStartup"
    /\ variables \in [BHVarIds -> BHVarValues]
    /\ party \in BHParties
    /\ equipment = [a \in LBActorIds |-> NoEquipment]
    /\ LBConstructed
    /\ limitBreakConfig = LBConfig({}, FALSE, 0)
    /\ overflowResult = INT_MIN
    /\ QPIdle
    /\ DSConstructed
    /\ startup = StartupOf(dsStarted)

NextBH ==
    \/ \E scene \in BHScenes : BH_onFrame(scene)
    \/ \E id \in BHVarIds, value \in BHVarValues : BH_onSetVariable(id, value)
    \/ \E command \in BHCommands, number \in 0..3 : BH_onComment(command, TRUE, number)
    \/ \E command \in BHCommands : BH_onComment(command, FALSE, 0)
    \/ \E actor \in BHConfigActors, id \in 0..MaxWeaponId : BH_HostEquips(actor, 1, id)
    \/ \E actor \in BHTwoWeapons, id \in 0..MaxWeaponId : BH_HostEquips(actor, 2, id)
    \/ \E newParty \in BHParties : LB_HostChangesParty(newParty)

SpecBH == InitBH /\ [][NextBH]_vars

====
